---- MODULE Spec2Model ----
(***************************************************************************)
(* marketsched: business-day, SQ-date and session queries for JPX index    *)
(* derivatives over a local cache of reference data.                       *)
(*                                                                         *)
(* Dates are proleptic Gregorian ordinals, as datetime.date.toordinal()    *)
(* gives them (date(1,1,1) = 1), so d + timedelta(days=1) is d + 1.        *)
(* Texts are sequences of characters; a decimal digit is the number 0..9.  *)
(* A call that raises returns [tag |-> "err"], one that returns normally   *)
(* [tag |-> "ok"]; Python's None is the ordinal 0, which is no date.       *)
(***************************************************************************)
EXTENDS Integers, Sequences, FiniteSets, TLC

VARIABLES cache, call, ret, now, disk, markets, updating

vars == <<cache, call, ret, now, disk, markets, updating>>

(* ------------------------------------------------------------------ *)
(* datetime.date arithmetic used by the calendar                        *)
(* ------------------------------------------------------------------ *)

IsLeap(y) == y % 4 = 0 /\ (y % 100 # 0 \/ y % 400 = 0)

DaysInMonth(y, m) ==
    IF m = 2 THEN (IF IsLeap(y) THEN 29 ELSE 28)
    ELSE IF m \in {4, 6, 9, 11} THEN 30 ELSE 31

DaysBeforeYear(y) ==
    LET p == y - 1 IN p * 365 + (p \div 4) - (p \div 100) + (p \div 400)

RECURSIVE DaysBeforeMonth(_, _)
DaysBeforeMonth(y, m) ==
    IF m = 1 THEN 0 ELSE DaysBeforeMonth(y, m - 1) + DaysInMonth(y, m - 1)

\* date(y, m, d).toordinal()
Date(y, m, d) == DaysBeforeYear(y) + DaysBeforeMonth(y, m) + d

\* d.year
YearOf(n) ==
    LET n0   == n - 1
        n400 == n0 \div 146097
        r400 == n0 % 146097
        n100 == r400 \div 36524
        r100 == r400 % 36524
        n4   == r100 \div 1461
        r4   == r100 % 1461
        n1   == r4 \div 365
        y    == n400 * 400 + n100 * 100 + n4 * 4 + n1 + 1
    IN  IF n1 = 4 \/ n100 = 4 THEN y - 1 ELSE y

\* d.month
MonthOf(n) ==
    LET y   == YearOf(n)
        doy == n - DaysBeforeYear(y)
    IN  CHOOSE m \in 1..12 :
            DaysBeforeMonth(y, m) < doy /\ doy <= DaysBeforeMonth(y, m) + DaysInMonth(y, m)

\* d.weekday(): 0 = Monday .. 6 = Sunday
Weekday(n) == (n + 6) % 7

SatOrSun(d) == Weekday(d) \in {5, 6}

(* ------------------------------------------------------------------ *)
(* Results of calls                                                     *)
(* ------------------------------------------------------------------ *)

None == 0

Ok(v) == [tag |-> "ok", val |-> v]

Raise(name, args) == [tag |-> "err", exc |-> name, args |-> args]

\* raise CacheNotAvailableError(*args): __init__(self) takes no argument, so a
\* call that passes a message raises TypeError instead of the exception
CacheNotAvailableError(nargs) ==
    IF nargs = 0 THEN Raise("CacheNotAvailableError", <<>>) ELSE Raise("TypeError", <<>>)

SQDataNotFoundError(year, month) == Raise("SQDataNotFoundError", <<year, month>>)

RuntimeError == Raise("RuntimeError", <<>>)

IsOk(r) == r.tag = "ok"

IsErr(r, name) == r.tag = "err" /\ r.exc = name

(* ------------------------------------------------------------------ *)
(* Reference data store, keyed by data kind                             *)
(* ------------------------------------------------------------------ *)

SQ_DATES == "sq_dates"

HOLIDAY_TRADING == "holiday_trading"

DataType == {SQ_DATES, HOLIDAY_TRADING}

\* a kind nothing is stored for: no table and no metadata
Absent == [present |-> FALSE, rows |-> <<>>, meta |-> <<>>]

\* ParquetCacheManager.read(kind): the table of the kind, or None
read(kind) == cache[kind]

\* _read_holidays(): the rows, or raise CacheNotAvailableError("...")
read_holidays ==
    LET table == read(HOLIDAY_TRADING)
    IN  IF ~table.present THEN CacheNotAvailableError(1) ELSE Ok(table.rows)

\* _read_sq_dates(): the rows, or raise CacheNotAvailableError("...")
read_sq_dates ==
    LET table == read(SQ_DATES)
    IN  IF ~table.present THEN CacheNotAvailableError(1) ELSE Ok(table.rows)

(* ------------------------------------------------------------------ *)
(* Data query layer                                                     *)
(* ------------------------------------------------------------------ *)

\* any(record["date"] == d and record["is_trading"] for record in records)
is_holiday_trading_day(d) ==
    LET records == read_holidays
    IN  IF records.tag = "err" THEN records
        ELSE Ok(\E i \in 1..Len(records.val) :
                    records.val[i].date = d /\ records.val[i].is_trading)

\* variant of get_non_trading_holidays with the `not` of the filter lost
get_non_trading_holidays_not_lost ==
    LET records == read_holidays
    IN  IF records.tag = "err" THEN records
        ELSE Ok({records.val[i].date :
                    i \in {j \in 1..Len(records.val) : records.val[j].is_trading}})

\* {record["date"] for record in records if not record["is_trading"]}
get_non_trading_holidays ==
    LET records == read_holidays
    IN  IF records.tag = "err" THEN records
        ELSE Ok({records.val[i].date :
                    i \in {j \in 1..Len(records.val) : ~records.val[j].is_trading}})

(* ------------------------------------------------------------------ *)
(* Calendar engine: business days                                       *)
(* ------------------------------------------------------------------ *)

MAX_SEARCH_DAYS == 365

is_weekend(d) == Weekday(d) >= 5

\* variant of is_business_day that asks for a holiday trading day before the weekend
is_business_day_trading_first(d) ==
    LET trading == is_holiday_trading_day(d)
    IN  IF trading.tag = "ok" /\ trading.val THEN Ok(TRUE)
        ELSE IF is_weekend(d) THEN Ok(FALSE)
        ELSE IF trading.tag = "err" THEN trading
        ELSE LET non_trading_holidays == get_non_trading_holidays
             IN  IF non_trading_holidays.tag = "err" THEN non_trading_holidays
                 ELSE Ok(d \notin non_trading_holidays.val)

\* variant of is_business_day that asks for a non-trading holiday before a trading one
is_business_day_closed_first(d) ==
    IF is_weekend(d) THEN Ok(FALSE)
    ELSE LET non_trading_holidays == get_non_trading_holidays
         IN  IF non_trading_holidays.tag = "err" THEN non_trading_holidays
             ELSE IF d \in non_trading_holidays.val THEN Ok(FALSE)
             ELSE Ok(TRUE)

is_business_day(d) ==
    IF is_weekend(d) THEN Ok(FALSE)
    ELSE LET trading == is_holiday_trading_day(d)
         IN  IF trading.tag = "err" THEN trading
             ELSE IF trading.val THEN Ok(TRUE)
             ELSE LET non_trading_holidays == get_non_trading_holidays
                  IN  IF non_trading_holidays.tag = "err" THEN non_trading_holidays
                      ELSE Ok(d \notin non_trading_holidays.val)

\* the loop body found no business day: the for-loop goes on
Continue == [tag |-> "continue"]

RECURSIVE search_loop(_, _, _, _)
\* Iterations lo..hi of `for _ in range(MAX_SEARCH_DAYS)` in next_business_day
\* (step = 1) and previous_business_day (step = -1), run in order; iteration i
\* tests current = d + step * (i + 1).  The result is that of the first
\* iteration that leaves the loop (a return or an exception), else Continue.
\* The range is run as its first half followed by its second half, which
\* keeps the depth of evaluation logarithmic in MAX_SEARCH_DAYS.
search_loop(d, step, lo, hi) ==
    IF lo > hi THEN Continue
    ELSE IF lo = hi THEN
        LET current == d + step * (lo + 1)
            b == is_business_day(current)
        IN  IF b.tag = "err" THEN b
            ELSE IF b.val THEN Ok(current)
            ELSE Continue
    ELSE
        LET mid == (lo + hi) \div 2
            first == search_loop(d, step, lo, mid)
        IN  IF first.tag # "continue" THEN first
            ELSE search_loop(d, step, mid + 1, hi)

\* variant of next_business_day whose search starts at d itself
next_business_day_from_d(d) ==
    LET found == search_loop(d - 1, 1, 0, MAX_SEARCH_DAYS - 1)
    IN  IF found.tag = "continue" THEN RuntimeError ELSE found

\* variant of next_business_day whose loop runs one time too few
next_business_day_short(d) ==
    LET found == search_loop(d, 1, 0, MAX_SEARCH_DAYS - 2)
    IN  IF found.tag = "continue" THEN RuntimeError ELSE found

next_business_day(d) ==
    LET found == search_loop(d, 1, 0, MAX_SEARCH_DAYS - 1)
    IN  IF found.tag = "continue" THEN RuntimeError ELSE found

\* variant of previous_business_day whose search starts at d itself
previous_business_day_from_d(d) ==
    LET found == search_loop(d + 1, -1, 0, MAX_SEARCH_DAYS - 1)
    IN  IF found.tag = "continue" THEN RuntimeError ELSE found

previous_business_day(d) ==
    LET found == search_loop(d, -1, 0, MAX_SEARCH_DAYS - 1)
    IN  IF found.tag = "continue" THEN RuntimeError ELSE found

RECURSIVE get_business_days_loop(_, _, _)
\* the while-loop of get_business_days
get_business_days_loop(current, end, result) ==
    IF ~(current <= end) THEN Ok(result)
    ELSE LET b == is_business_day(current)
         IN  IF b.tag = "err" THEN b
             ELSE get_business_days_loop(current + 1, end,
                      IF b.val THEN Append(result, current) ELSE result)

\* variant of get_business_days whose loop stops before end
get_business_days_open_end(start, end) ==
    IF start > end THEN Ok(<<>>)
    ELSE get_business_days_loop(start, end - 1, <<>>)

\* variant of get_business_days whose loop starts after start
get_business_days_after_start(start, end) ==
    IF start > end THEN Ok(<<>>)
    ELSE get_business_days_loop(start + 1, end, <<>>)

get_business_days(start, end) ==
    IF start > end THEN Ok(<<>>)
    ELSE get_business_days_loop(start, end, <<>>)

\* variant of count_business_days that counts the weekdays of the range itself
count_business_days_weekdays(start, end) ==
    IF start > end THEN Ok(0)
    ELSE LET days == get_business_days(start, end)
         IN  IF days.tag = "err" THEN days
             ELSE Ok(Cardinality({x \in start..end : ~is_weekend(x)}))

count_business_days(start, end) ==
    LET days == get_business_days(start, end)
    IN  IF days.tag = "err" THEN days ELSE Ok(Len(days.val))

(* ------------------------------------------------------------------ *)
(* Contract month and SQ dates                                          *)
(* ------------------------------------------------------------------ *)

RECURSIVE Str(_)
\* str(n) for n >= 0: the decimal digits, most significant first
Str(n) == IF n < 10 THEN <<n>> ELSE Str(n \div 10) \o <<n % 10>>

\* ContractMonth(year=.., month=..): the validators of the two fields
ContractMonthValid(year, month) == year >= 0 /\ 1 <= month /\ month <= 12

\* ContractMonth.to_yyyymm: f"{year}{month:02d}"
to_yyyymm(year, month) == Str(year) \o <<month \div 10, month % 10>>

\* characters of a contract-month text other than the decimal digits 0..9
NEN == 10

GATSU == 11

GEN == 12

HYPHEN == 13

SPACE == 14

\* ContractMonth.to_japanese: f"{year}\u5e74{month}\u6708\u9650"
to_japanese(year, month) == Str(year) \o <<NEN>> \o Str(month) \o <<GATSU, GEN>>

\* ContractMonth(year=.., month=..): the value, or the validators' error
ContractMonth(year, month) ==
    IF ContractMonthValid(year, month) THEN Ok([year |-> year, month |-> month])
    ELSE Raise("ValidationError", <<>>)

ContractMonthParseError(input_text) == Raise("ContractMonthParseError", <<input_text>>)

\* _create_or_raise: the ValueError of the validators becomes ContractMonthParseError
create_or_raise(year, month, original_text) ==
    IF IsOk(ContractMonth(year, month)) THEN ContractMonth(year, month)
    ELSE ContractMonthParseError(original_text)

RECURSIVE lstrip(_)
lstrip(text) ==
    IF text # <<>> /\ text[1] = SPACE THEN lstrip(Tail(text)) ELSE text

RECURSIVE rstrip(_)
rstrip(text) ==
    IF text # <<>> /\ text[Len(text)] = SPACE
    THEN rstrip(SubSeq(text, 1, Len(text) - 1)) ELSE text

\* str.strip()
strip(text) == rstrip(lstrip(text))

\* \d{lo,hi} anchored at position from: the lengths n in lo..hi for which
\* text[from .. from + n - 1] are decimal digits
digit_runs(text, from, lo, hi) ==
    {n \in lo..hi : /\ from + n - 1 <= Len(text)
                    /\ \A i \in from..(from + n - 1) : text[i] \in 0..9}

\* ^(\d{2,4})NEN(\d{1,2})GATSU GEN$: the (year digits, month digits) splits
japanese_pattern(text) ==
    {nm \in (2..4) \X (1..2) :
        /\ nm[1] \in digit_runs(text, 1, 2, 4)
        /\ nm[2] \in digit_runs(text, nm[1] + 2, 1, 2)
        /\ Len(text) = nm[1] + nm[2] + 3
        /\ text[nm[1] + 1] = NEN
        /\ text[nm[1] + nm[2] + 2] = GATSU
        /\ text[nm[1] + nm[2] + 3] = GEN}

\* ^(\d{4})(\d{2})$
yyyymm_pattern(text) == Len(text) = 6 /\ 6 \in digit_runs(text, 1, 6, 6)

\* ^(\d{4})-(\d{2})$
yyyy_mm_pattern(text) ==
    /\ Len(text) = 7
    /\ 4 \in digit_runs(text, 1, 4, 4)
    /\ text[5] = HYPHEN
    /\ 2 \in digit_runs(text, 6, 2, 2)

RECURSIVE int(_)
\* int(digits) of a text of decimal digits
int(digits) ==
    IF digits = <<>> THEN 0
    ELSE 10 * int(SubSeq(digits, 1, Len(digits) - 1)) + digits[Len(digits)]

\* ContractMonth.parse
parse(raw) ==
    LET text == strip(raw)
    IN  IF japanese_pattern(text) # {}
        THEN LET nm == CHOOSE m \in japanese_pattern(text) : TRUE
                 year == int(SubSeq(text, 1, nm[1]))
                 month == int(SubSeq(text, nm[1] + 2, nm[1] + nm[2] + 1))
             IN  create_or_raise(IF year < 100 THEN 2000 + year ELSE year, month, text)
        ELSE IF yyyymm_pattern(text)
        THEN create_or_raise(int(SubSeq(text, 1, 4)), int(SubSeq(text, 5, 6)), text)
        ELSE IF yyyy_mm_pattern(text)
        THEN create_or_raise(int(SubSeq(text, 1, 4)), int(SubSeq(text, 6, 7)), text)
        ELSE ContractMonthParseError(text)

RECURSIVE first_match(_, _, _)
\* the for-loop of JPXDataQuery.get_sq_date: the first record with the target
first_match(records, target, i) ==
    IF i > Len(records) THEN None
    ELSE IF records[i].contract_month = target THEN records[i].sq_date
    ELSE first_match(records, target, i + 1)

\* JPXDataQuery.get_sq_date: a date, None, or an error
query_get_sq_date(year, month) ==
    LET records == read_sq_dates
    IN  IF records.tag = "err" THEN records
        ELSE IF ~ContractMonthValid(year, month) THEN Raise("ValidationError", <<>>)
        ELSE Ok(first_match(records.val, to_yyyymm(year, month), 1))

\* variant of JPXCalendar.get_sq_date that hands on the query's None
get_sq_date_unchecked(year, month) == query_get_sq_date(year, month)

\* JPXCalendar.get_sq_date
get_sq_date(year, month) ==
    LET result == query_get_sq_date(year, month)
    IN  IF result.tag = "err" THEN result
        ELSE IF result.val = None THEN SQDataNotFoundError(year, month)
        ELSE result

\* variant of JPXCalendar.is_sq_date that answers False when the period has no data
is_sq_date_swallow(d) ==
    LET sq_date == query_get_sq_date(YearOf(d), MonthOf(d))
    IN  IF sq_date.tag = "err" THEN sq_date ELSE Ok(sq_date.val # None /\ sq_date.val = d)

\* JPXCalendar.is_sq_date
is_sq_date(d) ==
    LET sq_date == get_sq_date(YearOf(d), MonthOf(d))
    IN  IF sq_date.tag = "err" THEN sq_date ELSE Ok(sq_date.val = d)

\* JPXIndex.is_sq_date: the market facade delegates to its calendar
market_is_sq_date(d) == is_sq_date(d)

\* text.startswith(prefix)
startswith(text, prefix) ==
    Len(prefix) <= Len(text) /\ SubSeq(text, 1, Len(prefix)) = prefix

RECURSIVE insert_sorted(_, _)
\* x put into the ascending sequence s, after the entries that are <= x
insert_sorted(s, x) ==
    IF s = <<>> THEN <<x>>
    ELSE IF x < Head(s) THEN <<x>> \o s
    ELSE <<Head(s)>> \o insert_sorted(Tail(s), x)

RECURSIVE sorted(_)
\* sorted(dates): the same entries, ascending, duplicates kept
sorted(dates) ==
    IF dates = <<>> THEN <<>>
    ELSE insert_sorted(sorted(SubSeq(dates, 1, Len(dates) - 1)), dates[Len(dates)])

RECURSIVE sq_dates_with_prefix_but_last(_, _, _)
\* variant of the list comprehension that leaves out the last record
sq_dates_with_prefix_but_last(records, year_prefix, i) ==
    IF i >= Len(records) THEN <<>>
    ELSE (IF startswith(records[i].contract_month, year_prefix)
          THEN <<records[i].sq_date>> ELSE <<>>)
         \o sq_dates_with_prefix_but_last(records, year_prefix, i + 1)

RECURSIVE sq_dates_with_prefix(_, _, _)
\* the list comprehension of JPXDataQuery.get_sq_dates_for_year: the sq_date of
\* every record whose contract_month text starts with year_prefix, in order
sq_dates_with_prefix(records, year_prefix, i) ==
    IF i > Len(records) THEN <<>>
    ELSE (IF startswith(records[i].contract_month, year_prefix)
          THEN <<records[i].sq_date>> ELSE <<>>)
         \o sq_dates_with_prefix(records, year_prefix, i + 1)

\* JPXDataQuery.get_sq_dates_for_year
query_get_sq_dates_for_year(year) ==
    LET records == read_sq_dates
    IN  IF records.tag = "err" THEN records
        ELSE Ok(sorted(sq_dates_with_prefix(records.val, Str(year), 1)))

\* JPXCalendar.get_sq_dates_for_year
get_sq_dates_for_year(year) ==
    LET dates == query_get_sq_dates_for_year(year)
    IN  IF dates.tag = "err" THEN dates
        ELSE IF dates.val = <<>> THEN SQDataNotFoundError(year, 1)
        ELSE dates

\* JPXIndex.get_sq_dates_for_year: the market facade delegates to its calendar
market_get_sq_dates_for_year(year) == get_sq_dates_for_year(year)

(* ------------------------------------------------------------------ *)
(* Datetimes and trading sessions                                       *)
(* ------------------------------------------------------------------ *)

\* dt.tzinfo is None: a naive datetime
NoTzinfo == ""

UTC == "UTC"

ASIA_TOKYO == "Asia/Tokyo"

NEW_YORK == "America/New_York"

\* datetime(y, m, d, H, M, S, tzinfo=..): the date, the second of the day on the
\* wall clock of tzinfo, and tzinfo
datetime(date, sec, tzinfo) == [date |-> date, sec |-> sec, tzinfo |-> tzinfo]

\* time(H, M) and time(H, M, S) as the second of the day
time(hour, minute) == hour * 3600 + minute * 60

\* the first Sunday on or after date d
SundayOnOrAfter(d) == d + ((6 - Weekday(d)) % 7)

\* America/New_York daylight saving time, by the rule in force since 2007:
\* from 02:00 EST on the second Sunday of March to 02:00 EDT on the first
\* Sunday of November
DstStart(year) == SundayOnOrAfter(Date(year, 3, 8))

DstEnd(year) == SundayOnOrAfter(Date(year, 11, 1))

\* the reading (date, sec) is at or after start_sec of the day start and
\* before end_sec of the day end
InPeriod(date, sec, start, start_sec, end, end_sec) ==
    /\ date > start \/ (date = start /\ sec >= start_sec)
    /\ date < end \/ (date = end /\ sec < end_sec)

\* the reading lies in the daylight saving period of the year
DstOfYear(date, sec, year, start_sec, end_sec) ==
    InPeriod(date, sec, DstStart(year), start_sec, DstEnd(year), end_sec)

\* New York is on daylight saving time at the reading (date, sec), the
\* period reckoned from start_sec on its first day to end_sec on its last
NewYorkDst(date, sec, start_sec, end_sec) ==
    DstOfYear(date, sec, YearOf(date), start_sec, end_sec)

\* the offset from UTC of a zone in seconds, outside daylight saving time
standard_offset(tzinfo) ==
    CASE tzinfo = UTC -> 0
      [] tzinfo \in {ASIA_TOKYO, "+09:00"} -> 9 * 3600
      [] tzinfo \in {NEW_YORK, "-05:00"} -> 0 - 5 * 3600
      [] tzinfo = "-04:00" -> 0 - 4 * 3600

\* tzinfo.utcoffset(dt) in seconds for the wall clock of dt.  Tokyo has no
\* daylight saving time; New York is an hour ahead of EST while its wall
\* clock is between 03:00 on the day the period starts and 02:00 on the day
\* it ends: a time the clocks skip (02:00 to 03:00) counts as standard time
\* and a time they repeat (01:00 to 02:00) as daylight saving time, as for a
\* datetime with fold = 0
utcoffset(tzinfo, dt) ==
    standard_offset(tzinfo)
    + (IF tzinfo = NEW_YORK /\ NewYorkDst(dt.date, dt.sec, time(3, 0), time(2, 0))
       THEN 3600 ELSE 0)

\* the offset tz has at a UTC instant, which tzinfo.fromutc applies: New
\* York's period runs from 07:00 UTC (02:00 EST) to 06:00 UTC (02:00 EDT)
fromutc_offset(tz, utc) ==
    standard_offset(tz)
    + (IF tz = NEW_YORK /\ NewYorkDst(utc.date, utc.sec, time(7, 0), time(6, 0))
       THEN 3600 ELSE 0)

\* the wall clock s seconds after 00:00 of a date, s of either sign
plus_seconds(date, s) == [date |-> date + (s \div 86400), sec |-> s % 86400]

\* dt.replace(tzinfo=tz): the same wall clock, labelled with tz
replace_tzinfo(dt, tz) == datetime(dt.date, dt.sec, tz)

\* tz.fromutc(utc): the wall clock of tz at a UTC instant
fromutc(utc, tz) == replace_tzinfo(plus_seconds(utc.date, utc.sec + fromutc_offset(tz, utc)), tz)

\* variant of astimezone that keeps the wall clock and only relabels the zone
astimezone_relabel(dt, tz) == datetime(dt.date, dt.sec, tz)

\* dt.astimezone(tz) for an aware dt: the same instant on the wall clock of
\* tz (the callers pass UTC or Asia/Tokyo; the record carries no fold, which
\* a result in New York's repeated hour would have set)
astimezone(dt, tz) ==
    IF dt.tzinfo = tz THEN dt
    ELSE fromutc(plus_seconds(dt.date, dt.sec - utcoffset(dt.tzinfo, dt)), tz)

\* a < b for two datetimes of one zone: the wall clocks are compared
wall_before(a, b) == a.date < b.date \/ (a.date = b.date /\ a.sec < b.sec)

\* x < y for two aware datetimes: with one tzinfo on both sides the wall
\* clocks are compared, otherwise the instants
earlier(x, y) ==
    IF x.tzinfo = y.tzinfo THEN wall_before(x, y)
    ELSE wall_before(astimezone(x, UTC), astimezone(y, UTC))

\* datetime.now(tz): the clock, which runs in UTC, read on the wall clock of tz
datetime_now(tz) == astimezone(now, tz)

DAY == "day"

NIGHT == "night"

CLOSED == "closed"

TradingSession == {DAY, NIGHT, CLOSED}

DAY_START == time(8, 45)

DAY_END == time(15, 45)

NIGHT_START == time(17, 0)

NIGHT_END == time(6, 0)

\* variant of is_day_session whose window is open at its end
is_day_session_open_end(t) == DAY_START <= t /\ t < DAY_END

\* JPXIndexSessionTimes.is_day_session
is_day_session(t) == DAY_START <= t /\ t <= DAY_END

\* JPXIndexSessionTimes.is_night_session
is_night_session(t) == t >= NIGHT_START \/ t < NIGHT_END

\* JPXIndex._TIMEZONE
TIMEZONE == ASIA_TOKYO

\* JPXIndex._validate_timezone: returns None or raises
validate_timezone(dt) ==
    IF dt.tzinfo = NoTzinfo THEN Raise("TimezoneRequiredError", <<>>) ELSE Ok(None)

\* the three tests of get_session on t = dt.time()
session_at(t) ==
    IF is_day_session(t) THEN DAY
    ELSE IF is_night_session(t) THEN NIGHT
    ELSE CLOSED

\* variant of get_session that reads a naive datetime as market local time
get_session_local_fallback(given, dt) ==
    IF ~given THEN Ok(session_at(datetime_now(TIMEZONE).sec))
    ELSE IF dt.tzinfo = NoTzinfo THEN Ok(session_at(dt.sec))
    ELSE Ok(session_at(astimezone(dt, TIMEZONE).sec))

\* JPXIndex.get_session(dt); given = FALSE is the call with dt = None
get_session(given, dt) ==
    IF ~given THEN Ok(session_at(datetime_now(TIMEZONE).sec))
    ELSE LET valid == validate_timezone(dt)
         IN  IF valid.tag = "err" THEN valid
             ELSE Ok(session_at(astimezone(dt, TIMEZONE).sec))

\* variant of is_trading_hours that also asks for a business day
is_trading_hours_on_business_days(given, dt) ==
    LET session == get_session(given, dt)
    IN  IF session.tag = "err" THEN session
        ELSE Ok(session.val # CLOSED
                /\ is_business_day(IF given THEN astimezone(dt, TIMEZONE).date
                                   ELSE datetime_now(TIMEZONE).date) = Ok(TRUE))

\* JPXIndex.is_trading_hours(dt)
is_trading_hours(given, dt) ==
    LET session == get_session(given, dt)
    IN  IF session.tag = "err" THEN session ELSE Ok(session.val # CLOSED)

(* ------------------------------------------------------------------ *)
(* Directory of JPXDataCache                                            *)
(* ------------------------------------------------------------------ *)

SQ_DATES_FILE == "sq_dates.parquet"

HOLIDAYS_FILE == "holidays.parquet"

METADATA_FILE == "metadata.json"

CacheFiles == {SQ_DATES_FILE, HOLIDAYS_FILE, METADATA_FILE}

\* path.exists() is false
NoFile == [exists |-> FALSE, content |-> <<>>]

\* a file that exists, with its content
File(content) == [exists |-> TRUE, content |-> content]

SQ_DATES_SCHEMA == {"year", "month", "sq_date", "product_type"}

HOLIDAYS_SCHEMA == {"date", "holiday_name", "is_trading", "is_confirmed"}

\* pa.Table.from_pylist(records, schema=schema): the columns are those of the
\* schema; a key of a record that is no column is dropped, a missing one is null
from_pylist(records, schema) ==
    [columns |-> schema,
     rows |-> [i \in 1..Len(records) |->
                 [f \in schema |-> IF f \in DOMAIN records[i] THEN records[i][f] ELSE None]]]

InvalidDataFormatError == Raise("InvalidDataFormatError", <<>>)

\* JPXDataCache._validate_schema, then table.to_pylist()
validated_pylist(table, expected_schema) ==
    IF \E field \in expected_schema : field \notin table.columns THEN InvalidDataFormatError
    ELSE Ok(table.rows)

\* JPXDataCache.read_sq_dates
JPXDataCache_read_sq_dates ==
    IF ~disk[SQ_DATES_FILE].exists THEN CacheNotAvailableError(1)
    ELSE validated_pylist(disk[SQ_DATES_FILE].content, SQ_DATES_SCHEMA)

\* JPXDataCache.read_holidays
JPXDataCache_read_holidays ==
    IF ~disk[HOLIDAYS_FILE].exists THEN CacheNotAvailableError(1)
    ELSE validated_pylist(disk[HOLIDAYS_FILE].content, HOLIDAYS_SCHEMA)

\* the directory after JPXDataCache.write_sq_dates(records)
JPXDataCache_write_sq_dates(records) ==
    [disk EXCEPT ![SQ_DATES_FILE] = File(from_pylist(records, SQ_DATES_SCHEMA))]

\* the directory after JPXDataCache.write_holidays(records)
JPXDataCache_write_holidays(records) ==
    [disk EXCEPT ![HOLIDAYS_FILE] = File(from_pylist(records, HOLIDAYS_SCHEMA))]

\* the directory after JPXDataCache.clear(): each of the three files is unlinked
JPXDataCache_clear == [f \in CacheFiles |-> NoFile]

\* the fields of the model CacheMetadata
CacheMetadataFields ==
    {"data_type", "source_url", "fetched_at", "expires_at", "schema_version", "record_count"}

\* CacheMetadata.validate_metadata
validate_metadata(m) ==
    IF ~earlier(m.fetched_at, m.expires_at) THEN Raise("ValidationError", <<>>)
    ELSE IF m.record_count < 0 THEN Raise("ValidationError", <<>>)
    ELSE IF m.schema_version < 1 THEN Raise("ValidationError", <<>>)
    ELSE Ok(m)

\* CacheMetadata(**kwargs): every field is required, a key that is no field is
\* ignored, the two datetimes must be aware, then the validator runs
CacheMetadata(kwargs) ==
    IF \E f \in CacheMetadataFields : f \notin DOMAIN kwargs THEN Raise("ValidationError", <<>>)
    ELSE IF kwargs.data_type \notin DataType THEN Raise("ValidationError", <<>>)
    ELSE IF kwargs.fetched_at.tzinfo = NoTzinfo \/ kwargs.expires_at.tzinfo = NoTzinfo
         THEN Raise("ValidationError", <<>>)
    ELSE validate_metadata([f \in CacheMetadataFields |-> kwargs[f]])

\* the zone of a datetime parsed from text: a fixed offset
fixed_offset(seconds) ==
    CASE seconds = 0 -> UTC
      [] seconds = 9 * 3600 -> "+09:00"
      [] seconds = 0 - 5 * 3600 -> "-05:00"
      [] seconds = 0 - 4 * 3600 -> "-04:00"

\* dt.isoformat(): the wall clock and the offset, as JSON text
isoformat(dt) == <<dt.date, dt.sec, utcoffset(dt.tzinfo, dt)>>

\* the aware datetime an ISO text is parsed to
fromisoformat(text) == datetime(text[1], text[2], fixed_offset(text[3]))

\* metadata.model_dump(mode="json")
model_dump(m) ==
    [m EXCEPT !.fetched_at = isoformat(m.fetched_at), !.expires_at = isoformat(m.expires_at)]

\* CacheMetadata.model_validate(data) for the object json.load returned
model_validate(data) ==
    IF \E f \in CacheMetadataFields : f \notin DOMAIN data THEN Raise("ValidationError", <<>>)
    ELSE CacheMetadata([f \in CacheMetadataFields |->
                           IF f \in {"fetched_at", "expires_at"} THEN fromisoformat(data[f])
                           ELSE data[f]])

\* the directory after JPXDataCache.write_metadata(metadata)
JPXDataCache_write_metadata(metadata) ==
    [disk EXCEPT ![METADATA_FILE] = File(model_dump(metadata))]

\* JPXDataCache.read_metadata
JPXDataCache_read_metadata ==
    IF ~disk[METADATA_FILE].exists THEN CacheNotAvailableError(1)
    ELSE LET metadata == model_validate(disk[METADATA_FILE].content)
         IN  IF metadata.tag = "err" THEN InvalidDataFormatError ELSE metadata

\* obj.name: the attribute, or AttributeError when the object has none of the name
getattr(obj, name) ==
    IF name \in DOMAIN obj THEN Ok(obj[name]) ELSE Raise("AttributeError", <<>>)

\* JPXDataCache.is_cache_available; no FileNotFoundError is raised on the way
is_cache_available ==
    IF ~disk[METADATA_FILE].exists THEN Ok(FALSE)
    ELSE LET metadata == JPXDataCache_read_metadata
         IN  IF metadata.tag = "err" THEN metadata
             ELSE LET cache_valid_until == getattr(metadata.val, "cache_valid_until")
                  IN  IF cache_valid_until.tag = "err" THEN cache_valid_until
                      ELSE Ok(earlier(datetime_now(ASIA_TOKYO), cache_valid_until.val))

RECURSIVE JPXDataCache_first_sq_date(_, _, _, _, _)
\* the for-loop of JPXDataCache.get_sq_date
JPXDataCache_first_sq_date(records, year, month, product_type, i) ==
    IF i > Len(records) THEN None
    ELSE IF /\ records[i].year = year
            /\ records[i].month = month
            /\ records[i].product_type = product_type
         THEN records[i].sq_date
    ELSE JPXDataCache_first_sq_date(records, year, month, product_type, i + 1)

\* JPXDataCache.get_sq_date(year, month), product_type = "index"
JPXDataCache_get_sq_date(year, month) ==
    LET records == JPXDataCache_read_sq_dates
    IN  IF records.tag = "err" THEN records
        ELSE Ok(JPXDataCache_first_sq_date(records.val, year, month, "index", 1))

\* JPXDataCache.is_holiday_trading_day
JPXDataCache_is_holiday_trading_day(d) ==
    LET records == JPXDataCache_read_holidays
    IN  IF records.tag = "err" THEN records
        ELSE Ok(\E i \in 1..Len(records.val) :
                    records.val[i].date = d /\ records.val[i].is_trading)


CACHE_VALIDITY_HOURS == 24

\* dt + timedelta(hours=hours)
plus_hours(dt, hours) ==
    LET s == dt.sec + hours * 3600
    IN  datetime(dt.date + (s \div 86400), s % 86400, dt.tzinfo)

\* JPXDataFetcher.BASE_URL
BASE_URL == "https://www.jpx.co.jp"

\* JPXDataFetcher.SQ_DATES_PATH.format(year=year)
SQ_DATES_PATH(year) ==
    "/derivatives/rules/last-trading-day/tvdivq0000004gz8-att/"
    \o ToString(year) \o "_indexfutures_options_1_j.xlsx"

\* JPXDataFetcher.HOLIDAY_TRADING_URL
HOLIDAY_TRADING_URL ==
    "https://www.jpx.co.jp/derivatives/rules/holidaytrading/nlsgeu000006hweb-att/nlsgeu000006jgee.xlsx"

\* _get_default_years(): the current year of the clock in UTC and the next
get_default_years ==
    LET current_year == YearOf(datetime_now(UTC).date)
    IN  <<current_year, current_year + 1>>

RECURSIVE join(_, _)
\* sep.join(texts)
join(sep, texts) ==
    IF texts = <<>> THEN ""
    ELSE IF Len(texts) = 1 THEN texts[1]
    ELSE texts[1] \o sep \o join(sep, Tail(texts))

\* the source_url update_cache records for a kind: the URLs of the yearly SQ
\* files joined with ", ", or the URL of the holiday trading file
source_url(kind, years) ==
    IF kind = SQ_DATES
    THEN join(", ", [i \in 1..Len(years) |-> BASE_URL \o SQ_DATES_PATH(years[i])])
    ELSE HOLIDAY_TRADING_URL

\* the metadata a block of update_cache builds: fetched_at is the clock
\* reading the call took before its downloads, expires_at lies expiry later
block_metadata(kind, years, fetched_at, record_count) ==
    CacheMetadata([data_type |-> kind,
                   source_url |-> source_url(kind, years),
                   fetched_at |-> fetched_at,
                   expires_at |-> plus_hours(fetched_at, CACHE_VALIDITY_HOURS),
                   schema_version |-> 1,
                   record_count |-> record_count])

\* the metadata update_cache builds for rows fetched when it is called with
\* no years at the present clock reading
update_metadata(kind, rows) ==
    block_metadata(kind, get_default_years, datetime_now(UTC), Len(rows)).val

\* the store after ParquetCacheManager.write(kind, table, metadata): the table
\* and its metadata replace what was stored for the kind
ParquetCacheManager_write(store, kind, rows, metadata) ==
    [store EXCEPT ![kind] = [present |-> TRUE, rows |-> rows, meta |-> <<metadata>>]]

\* the argument data_type = None of clear
NoDataType == ""

\* a clear that drops its argument and clears every kind
ParquetCacheManager_clear_all_kinds(store, data_type) == [k \in DataType |-> Absent]

\* the store after ParquetCacheManager.clear(data_type); None clears every kind
ParquetCacheManager_clear(store, data_type) ==
    [k \in DataType |-> IF data_type \in {NoDataType, k} THEN Absent ELSE store[k]]

(* ------------------------------------------------------------------ *)
(* JPXDataFetcher: download and parsing of the JPX files                *)
(* ------------------------------------------------------------------ *)

\* a cell of a worksheet as openpyxl hands it over: None, a datetime (its date
\* and the seconds of its time of day) or a str
NoneCell == [type |-> "NoneType", date |-> 0, sec |-> 0, text |-> ""]

\* a datetime cell at midnight, which a cell formatted as a date holds
DateCell(d) == [type |-> "datetime", date |-> d, sec |-> 0, text |-> ""]

TextCell(s) == [type |-> "str", date |-> 0, sec |-> 0, text |-> s]

\* str(value) of a cell that is not None: a str is itself, a datetime gives
\* datetime.__str__, which is isoformat(sep=" "): "YYYY-MM-DD HH:MM:SS"
str(value) ==
    LET d2(n) == IF n < 10 THEN "0" \o ToString(n) ELSE ToString(n)
        d4(n) == IF n < 10 THEN "000" \o ToString(n)
                 ELSE IF n < 100 THEN "00" \o ToString(n)
                 ELSE IF n < 1000 THEN "0" \o ToString(n)
                 ELSE ToString(n)
        y == YearOf(value.date)
        m == MonthOf(value.date)
        d == value.date - Date(y, m, 1) + 1
    IN  IF value.type = "str" THEN value.text
        ELSE d4(y) \o "-" \o d2(m) \o "-" \o d2(d) \o " "
             \o d2(value.sec \div 3600) \o ":" \o d2((value.sec \div 60) % 60)
             \o ":" \o d2(value.sec % 60)

\* SQ_DATE_PRODUCT: the product name of the Nikkei 225 options rows, written
\* in Japanese in the source
SQ_DATE_PRODUCT == "Nikkei 225 options"

\* the text of the status column that says trading takes place ("jisshi
\* suru"), written in Japanese in the source
JISSHI_SURU == "jisshi suru"

\* DataFetchError(url, reason), raised by _download_excel for the URL it asked
DataFetchError(url) == Raise("DataFetchError", <<url>>)

\* what the server answers to a download: the request fails (http = FALSE)
\* or content comes back; the content is a workbook or not (xlsx), the
\* workbook has an active worksheet or not (active), one of its first ten
\* rows holds the required column names or not (header), rows are the rows
\* below that row
Response(http, xlsx, active, header, rows) ==
    [http |-> http, xlsx |-> xlsx, active |-> active, header |-> header, rows |-> rows]

\* _download_excel(url): the content, or DataFetchError for an httpx.HTTPError
download_excel(url, response) ==
    IF ~response.http THEN DataFetchError(url) ELSE Ok(response)

\* load_workbook(data, read_only=True): content that is no xlsx archive is
\* refused by zipfile
load_workbook(data) ==
    IF ~data.xlsx THEN Raise("BadZipFile", <<>>) ELSE Ok(data)

\* _parse_contract_month(value): the str f"{year}{month:02d}" of a datetime
\* or date, None for anything else; the value is given with its class
parse_contract_month(value) ==
    IF value.type = "datetime"
    THEN [class |-> "str", val |-> to_yyyymm(YearOf(value.date), MonthOf(value.date))]
    ELSE [class |-> "NoneType", val |-> <<>>]

\* _parse_date(value): the date of a datetime or date, None for anything else
parse_date(value) == IF value.type = "datetime" THEN value.date ELSE None

\* SQDateRecord(**kwargs): the field contract_month is declared ContractMonth
\* and pydantic refuses a value of another class, a str among them
SQDateRecord(kwargs) ==
    IF kwargs.contract_month.class # "ContractMonth" THEN Raise("ValidationError", <<>>)
    ELSE Ok([contract_month |-> kwargs.contract_month.val,
             last_trading_day |-> kwargs.last_trading_day,
             sq_date |-> kwargs.sq_date,
             product_category |-> kwargs.product_category])

\* HolidayTradingRecord(**kwargs): a date, a str and two bool
HolidayTradingRecord(kwargs) == Ok(kwargs)

\* the `continue` tests of the loop of _parse_sq_dates_excel: the row is of
\* another product, has no exercise date, or one of its dates is not read
sq_row_skipped(row) ==
    \/ row.product # TextCell(SQ_DATE_PRODUCT)
    \/ row.exercise_date = NoneCell
    \/ row.exercise_date = TextCell("-")
    \/ parse_contract_month(row.contract_month).class = "NoneType"
    \/ parse_date(row.last_trading_day) = None
    \/ parse_date(row.exercise_date) = None

\* the record built of a row that is not skipped: contract_month is the str
\* of _parse_contract_month
sq_row_record(row) ==
    SQDateRecord([contract_month |-> parse_contract_month(row.contract_month),
                  last_trading_day |-> parse_date(row.last_trading_day),
                  sq_date |-> parse_date(row.exercise_date),
                  product_category |-> "index_futures_options"])

RECURSIVE sq_rows_to_records(_, _)
\* the loop of _parse_sq_dates_excel over the rows below the header: the
\* records appended, or the exception of the first row that raises
sq_rows_to_records(rows, records) ==
    IF rows = <<>> THEN Ok(records)
    ELSE IF sq_row_skipped(Head(rows)) THEN sq_rows_to_records(Tail(rows), records)
    ELSE IF sq_row_record(Head(rows)).tag = "err" THEN sq_row_record(Head(rows))
    ELSE sq_rows_to_records(Tail(rows), Append(records, sq_row_record(Head(rows)).val))

\* _parse_sq_dates_excel(data)
parse_sq_dates_excel(data) ==
    IF load_workbook(data).tag = "err" THEN load_workbook(data)
    ELSE IF ~data.active THEN InvalidDataFormatError
    ELSE IF ~data.header THEN InvalidDataFormatError
    ELSE sq_rows_to_records(data.rows, <<>>)

\* the `continue` tests of the loop of _parse_holiday_trading_excel
holiday_row_skipped(row) ==
    \/ row.holiday_date = NoneCell
    \/ row.holiday_name = NoneCell
    \/ parse_date(row.holiday_date) = None

\* the record built of a row that is not skipped: the name is str(..) of
\* the cell, whatever the cell holds
holiday_row_record(row) ==
    HolidayTradingRecord([date |-> parse_date(row.holiday_date),
                          holiday_name |-> str(row.holiday_name),
                          is_trading |-> (row.status = TextCell(JISSHI_SURU)),
                          is_confirmed |-> TRUE])

RECURSIVE holiday_rows_to_records(_, _)
\* the loop of _parse_holiday_trading_excel over the rows below the header
holiday_rows_to_records(rows, records) ==
    IF rows = <<>> THEN Ok(records)
    ELSE IF holiday_row_skipped(Head(rows))
         THEN holiday_rows_to_records(Tail(rows), records)
    ELSE IF holiday_row_record(Head(rows)).tag = "err" THEN holiday_row_record(Head(rows))
    ELSE holiday_rows_to_records(Tail(rows),
                                 Append(records, holiday_row_record(Head(rows)).val))

\* _parse_holiday_trading_excel(data)
parse_holiday_trading_excel(data) ==
    IF load_workbook(data).tag = "err" THEN load_workbook(data)
    ELSE IF ~data.active THEN InvalidDataFormatError
    ELSE IF ~data.header THEN InvalidDataFormatError
    ELSE holiday_rows_to_records(data.rows, <<>>)

\* the key the records of a kind are sorted by: r.contract_month, which
\* ContractMonth.__lt__ orders by (year, month), or r.date
sort_key(kind, record) ==
    IF kind = SQ_DATES
    THEN record.contract_month.year * 12 + record.contract_month.month
    ELSE record.date

RECURSIVE insert_by_key(_, _, _)
\* record placed behind the records of s whose key is not greater
insert_by_key(kind, s, record) ==
    IF s = <<>> THEN <<record>>
    ELSE IF sort_key(kind, record) < sort_key(kind, Head(s)) THEN <<record>> \o s
    ELSE <<Head(s)>> \o insert_by_key(kind, Tail(s), record)

RECURSIVE sorted_records(_, _)
\* sorted(records, key=..): ascending by key, records of equal key in the
\* order they had
sorted_records(kind, records) ==
    IF records = <<>> THEN <<>>
    ELSE insert_by_key(kind, sorted_records(kind, SubSeq(records, 1, Len(records) - 1)),
                       records[Len(records)])

RECURSIVE fetch_sq_files(_, _, _)
\* the loop of fetch_sq_dates over the years: the file of each year is
\* downloaded and parsed, an exception leaves fetch_sq_dates, records are
\* appended; responses[i] is what the server answers for years[i]
fetch_sq_files(years, responses, all_records) ==
    IF years = <<>> THEN Ok(all_records)
    ELSE IF download_excel(BASE_URL \o SQ_DATES_PATH(Head(years)), Head(responses)).tag = "err"
         THEN download_excel(BASE_URL \o SQ_DATES_PATH(Head(years)), Head(responses))
    ELSE IF parse_sq_dates_excel(Head(responses)).tag = "err"
         THEN parse_sq_dates_excel(Head(responses))
    ELSE fetch_sq_files(Tail(years), Tail(responses),
                        all_records \o parse_sq_dates_excel(Head(responses)).val)

\* JPXDataFetcher.fetch_sq_dates(years): the records of all years sorted by
\* contract month, InvalidDataFormatError when no file held a record
fetch_sq_dates(years, responses) ==
    IF fetch_sq_files(years, responses, <<>>).tag = "err"
    THEN fetch_sq_files(years, responses, <<>>)
    ELSE IF fetch_sq_files(years, responses, <<>>).val = <<>> THEN InvalidDataFormatError
    ELSE Ok(sorted_records(SQ_DATES, fetch_sq_files(years, responses, <<>>).val))

\* JPXDataFetcher.fetch_holiday_trading(): the records sorted by date
fetch_holiday_trading(response) ==
    IF download_excel(HOLIDAY_TRADING_URL, response).tag = "err"
    THEN download_excel(HOLIDAY_TRADING_URL, response)
    ELSE IF parse_holiday_trading_excel(response).tag = "err"
         THEN parse_holiday_trading_excel(response)
    ELSE Ok(sorted_records(HOLIDAY_TRADING, parse_holiday_trading_excel(response).val))

(* ------------------------------------------------------------------ *)
(* Cache API: update_cache, clear_cache, get_cache_status               *)
(* ------------------------------------------------------------------ *)

\* ParquetCacheManager.is_valid(kind): metadata is stored and now < expires_at
is_valid(store, kind) ==
    /\ store[kind].meta # <<>>
    /\ earlier(now, store[kind].meta[1].expires_at)

\* the fields of CacheInfo that may be None; an optional value is a sequence
\* of no element (None) or of one element
CacheInfoOptional == {"fetched_at", "expires_at", "record_count"}

\* CacheInfo(**kwargs) with validate_consistency
CacheInfo(kwargs) ==
    IF kwargs.data_type \notin DataType THEN Raise("ValidationError", <<>>)
    ELSE IF \E f \in {"fetched_at", "expires_at"} :
                kwargs[f] # <<>> /\ kwargs[f][1].tzinfo = NoTzinfo
         THEN Raise("ValidationError", <<>>)
    ELSE IF kwargs.is_valid /\ (\/ kwargs.fetched_at = <<>>
                                \/ kwargs.expires_at = <<>>
                                \/ kwargs.record_count = <<>>)
         THEN Raise("ValidationError", <<>>)
    ELSE Ok(kwargs)

\* ParquetCacheManager.get_info(kind): the snapshot of the kind
get_info(store, kind) ==
    LET meta == store[kind].meta
    IN  CacheInfo([data_type |-> kind,
                   cache_path |-> kind,
                   is_valid |-> is_valid(store, kind),
                   fetched_at |-> IF meta = <<>> THEN <<>> ELSE <<meta[1].fetched_at>>,
                   expires_at |-> IF meta = <<>> THEN <<>> ELSE <<meta[1].expires_at>>,
                   record_count |-> IF meta = <<>> THEN <<>> ELSE <<meta[1].record_count>>])

\* get_cache_status: {dt.value: cache_manager.get_info(dt) for dt in CACHE_TYPES}
get_cache_status(store) ==
    IF \E dt \in DataType : get_info(store, dt).tag = "err"
    THEN get_info(store, CHOOSE dt \in DataType : get_info(store, dt).tag = "err")
    ELSE Ok([dt \in DataType |-> get_info(store, dt).val])

\* _sq_records_to_table
sq_records_to_table(records) ==
    [i \in 1..Len(records) |->
        [contract_month |-> to_yyyymm(records[i].contract_month.year,
                                      records[i].contract_month.month),
         last_trading_day |-> records[i].last_trading_day,
         sq_date |-> records[i].sq_date,
         product_category |-> records[i].product_category]]

\* _holiday_records_to_table
holiday_records_to_table(records) ==
    [i \in 1..Len(records) |->
        [date |-> records[i].date,
         holiday_name |-> records[i].holiday_name,
         is_trading |-> records[i].is_trading,
         is_confirmed |-> records[i].is_confirmed]]

\* the table of a kind built from the records the fetcher returned
records_to_table(kind, records) ==
    IF kind = SQ_DATES THEN sq_records_to_table(records)
    ELSE holiday_records_to_table(records)

\* `if force or not cache_manager.is_valid(kind)`: the block of the kind runs
needs_update(store, force, kind) == force \/ ~is_valid(store, kind)

\* the end of a block: an exception of the CacheMetadata constructor leaves
\* the call, otherwise table and metadata are written.  The result is the
\* store and the exception that left the block, if any
write_block(store, kind, table, metadata) ==
    IF metadata.tag = "err" THEN [store |-> store, exc |-> <<metadata>>]
    ELSE [store |-> ParquetCacheManager_write(store, kind, table, metadata.val),
          exc |-> <<>>]

\* a block that clears the kind when its fetch fails
update_kind_clear_first(store, frame, kind, fetched) ==
    IF fetched.tag = "err"
    THEN [store |-> ParquetCacheManager_clear(store, kind), exc |-> <<fetched>>]
    ELSE write_block(store, kind, records_to_table(kind, fetched.val),
                     block_metadata(kind, frame.years, frame.now, Len(fetched.val)))

\* one block of update_cache from the point where its fetch comes back:
\* fetched is what the fetcher returned or raised; an exception leaves the
\* call before anything is written, records are turned into table and
\* metadata and written
update_kind(store, frame, kind, fetched) ==
    IF fetched.tag = "err" THEN [store |-> store, exc |-> <<fetched>>]
    ELSE write_block(store, kind, records_to_table(kind, fetched.val),
                     block_metadata(kind, frame.years, frame.now, Len(fetched.val)))

\* the call has returned or raised result
finished(frame, result) == [frame EXCEPT !.pc = "done", !.ret = result]

\* update_cache from the check of the holiday kind: the call waits for
\* fetch_holiday_trading, or with nothing to fetch returns the status
from_holiday_check(frame, store) ==
    IF needs_update(store, frame.force, HOLIDAY_TRADING)
    THEN [frame EXCEPT !.pc = "fetch_holiday_trading"]
    ELSE finished(frame, get_cache_status(store))

\* update_cache from the check of the SQ dates: the call waits for
\* fetch_sq_dates, or goes on to the holiday kind
from_sq_check(frame, store) ==
    IF needs_update(store, frame.force, SQ_DATES)
    THEN [frame EXCEPT !.pc = "fetch_sq_dates"]
    ELSE from_holiday_check(frame, store)

\* update_cache after the block of the SQ dates
after_sq_dates(frame, block) ==
    IF block.exc # <<>> THEN finished(frame, block.exc[1])
    ELSE from_holiday_check(frame, block.store)

\* update_cache after the block of the holiday kind: `return get_cache_status()`
after_holiday_trading(frame, block) ==
    IF block.exc # <<>> THEN finished(frame, block.exc[1])
    ELSE finished(frame, get_cache_status(block.store))

\* clear_cache(data_type): the store afterwards
clear_cache(store, data_type) == ParquetCacheManager_clear(store, data_type)

(* ------------------------------------------------------------------ *)
(* Market registry                                                      *)
(* ------------------------------------------------------------------ *)

\* an empty dict: MarketRegistry._markets before any registration
NoMarkets == [market_id \in {} |-> ""]

\* MarketRegistry.register(market_id)(market_class): the dict afterwards and
\* the class the decorator returns
register(registered, market_id, market_class) ==
    [markets |-> [id \in DOMAIN registered \cup {market_id} |->
                     IF id = market_id THEN market_class ELSE registered[id]],
     ret |-> Ok(market_class)]

RECURSIVE text_le(_, _)
\* x <= y for two str values: the first differing letter decides, and a
\* proper prefix comes first
text_le(x, y) ==
    IF x = <<>> THEN TRUE
    ELSE IF y = <<>> THEN FALSE
    ELSE IF Head(x) # Head(y) THEN Head(x) < Head(y)
    ELSE text_le(Tail(x), Tail(y))

RECURSIVE sorted_texts(_)
\* sorted(keys): the texts in ascending order; a text is a sequence of
\* letter codes, compared letter by letter
sorted_texts(texts) ==
    IF texts = {} THEN <<>>
    ELSE LET least == CHOOSE x \in texts : \A y \in texts : text_le(x, y)
         IN  <<least>> \o sorted_texts(texts \ {least})

\* MarketRegistry.get_available_markets
get_available_markets(registered) == sorted_texts(DOMAIN registered)

\* MarketRegistry.clear
registry_clear(registered) == NoMarkets

\* MarketRegistry.get, without the instance it builds: the class registered
registry_get(registered, market_id) ==
    IF market_id \notin DOMAIN registered THEN Raise("MarketNotFoundError", <<market_id>>)
    ELSE Ok(registered[market_id])

(* ------------------------------------------------------------------ *)
(* Inputs                                                               *)
(* ------------------------------------------------------------------ *)

\* Friday 6 February 2026: the week of the repository's test scenarios
WindowStart == Date(2026, 2, 6)

WindowDays == 8

ProbeDates == WindowStart..(WindowStart + WindowDays - 1)

\* Saturday 7, Tuesday 10 and Wednesday 11 February 2026
HolidayDates == {Date(2026, 2, 7), Date(2026, 2, 10), Date(2026, 2, 11)}

\* a row of _holiday_records_to_table; the fetcher sets is_confirmed = True
HolidayRow(d, trading) ==
    [date |-> d, holiday_name |-> "holiday", is_trading |-> trading, is_confirmed |-> TRUE]

HolidayRows == {HolidayRow(d, t) : d \in HolidayDates, t \in BOOLEAN}

MaxHolidayRows == 2

HolidayTables == UNION {[1..n -> HolidayRows] : n \in 0..MaxHolidayRows}

(* ------------------------------------------------------------------ *)
(* State machine: one caller, one call at a time                        *)
(* ------------------------------------------------------------------ *)

Idle == [op |-> "idle", a |-> 0, b |-> 0, c |-> "", arg |-> <<>>]

NoResult == Ok(FALSE)

\* the clock when the program starts: 6 February 2026, 00:00 UTC
ClockStart == datetime(WindowStart, 0, UTC)

\* the call of update_cache in progress: where it stands (pc), its arguments
\* force and years, the clock reading of cache.py:112 and, once it is done,
\* what it returned or raised; here no call is in progress
NoUpdate ==
    [pc |-> "none", force |-> FALSE, years |-> <<>>, now |-> ClockStart, ret |-> NoResult]

Init ==
    /\ cache = [k \in DataType |-> Absent]
    /\ call = Idle
    /\ ret = NoResult
    /\ now = ClockStart
    /\ disk = [f \in CacheFiles |-> NoFile]
    /\ markets = NoMarkets
    /\ updating = NoUpdate

\* a caller stores a table with ParquetCacheManager.write(kind, table,
\* metadata), the metadata taken at the present clock reading: the rows and
\* the metadata of the kind are replaced
write(kind, rows) ==
    /\ call = Idle
    /\ cache' = ParquetCacheManager_write(cache, kind, rows, update_metadata(kind, rows))
    /\ UNCHANGED <<call, ret, now, disk, markets, updating>>

\* ParquetCacheManager.clear(kind): the kind reads as absent afterwards
clear(kind) ==
    /\ call = Idle
    /\ cache' = ParquetCacheManager_clear(cache, kind)
    /\ UNCHANGED <<call, ret, now, disk, markets, updating>>

\* JPXIndex.is_business_day
IsBusinessDay(d) ==
    /\ call = Idle
    /\ call' = [op |-> "is_business_day", a |-> d, b |-> 0, c |-> "", arg |-> <<>>]
    /\ ret' = is_business_day(d)
    /\ UNCHANGED <<cache, now, disk, markets, updating>>

\* JPXIndex.next_business_day
NextBusinessDay(d) ==
    /\ call = Idle
    /\ call' = [op |-> "next_business_day", a |-> d, b |-> 0, c |-> "", arg |-> <<>>]
    /\ ret' = next_business_day(d)
    /\ UNCHANGED <<cache, now, disk, markets, updating>>

\* JPXIndex.previous_business_day
PreviousBusinessDay(d) ==
    /\ call = Idle
    /\ call' = [op |-> "previous_business_day", a |-> d, b |-> 0, c |-> "", arg |-> <<>>]
    /\ ret' = previous_business_day(d)
    /\ UNCHANGED <<cache, now, disk, markets, updating>>

\* JPXIndex.get_business_days
GetBusinessDays(start, end) ==
    /\ call = Idle
    /\ call' = [op |-> "get_business_days", a |-> start, b |-> end, c |-> "", arg |-> <<>>]
    /\ ret' = get_business_days(start, end)
    /\ UNCHANGED <<cache, now, disk, markets, updating>>

\* JPXIndex.count_business_days
CountBusinessDays(start, end) ==
    /\ call = Idle
    /\ call' = [op |-> "count_business_days", a |-> start, b |-> end, c |-> "", arg |-> <<>>]
    /\ ret' = count_business_days(start, end)
    /\ UNCHANGED <<cache, now, disk, markets, updating>>

\* the caller takes the result (or the exception); the next call can start
Return ==
    /\ call # Idle
    /\ call' = Idle
    /\ ret' = NoResult
    /\ UNCHANGED <<cache, now, disk, markets, updating>>

Next ==
    \/ \E rows \in HolidayTables : write(HOLIDAY_TRADING, rows)
    \/ clear(HOLIDAY_TRADING)
    \/ \E d \in ProbeDates : IsBusinessDay(d)
    \/ \E d \in ProbeDates : NextBusinessDay(d)
    \/ \E d \in ProbeDates : PreviousBusinessDay(d)
    \/ \E start \in ProbeDates, end \in ProbeDates : GetBusinessDays(start, end)
    \/ \E start \in ProbeDates, end \in ProbeDates : CountBusinessDays(start, end)
    \/ Return

Spec == Init /\ [][Next]_vars

(* ------------------------------------------------------------------ *)
(* Business-day claims                                                  *)
(* ------------------------------------------------------------------ *)

HolidayData == cache[HOLIDAY_TRADING]

\* the holiday data holds a record for d with is_trading = t
HasRow(d, t) ==
    \E i \in 1..Len(HolidayData.rows) :
        HolidayData.rows[i].date = d /\ HolidayData.rows[i].is_trading = t

\* C1: is_business_day(d) is false for every Saturday and Sunday d, whatever
\* the holiday data holds (absent, empty, or a record for d with is_trading).
C1_WeekendNeverBusinessDay ==
    (call.op = "is_business_day" /\ SatOrSun(call.a)) => ret = Ok(FALSE)

C1_Witness ==
    /\ call.op = "is_business_day"
    /\ SatOrSun(call.a)
    /\ HolidayData.present
    /\ HasRow(call.a, TRUE)
    /\ ret = Ok(FALSE)

\* C2 as claimed: every date d with a record is_trading = true is a business
\* day, for every d (a Saturday or Sunday included).
C2_Original ==
    (call.op = "is_business_day" /\ HolidayData.present /\ HasRow(call.a, TRUE))
        => ret = Ok(TRUE)

\* C2 amended: every Monday-to-Friday date d with a record is_trading = true is
\* a business day, also when a second record for d has is_trading = false.
C2_TradingHolidayOnWeekday ==
    (/\ call.op = "is_business_day"
     /\ ~SatOrSun(call.a)
     /\ HolidayData.present
     /\ HasRow(call.a, TRUE))
        => ret = Ok(TRUE)

C2_Witness ==
    /\ call.op = "is_business_day"
    /\ ~SatOrSun(call.a)
    /\ HolidayData.present
    /\ HasRow(call.a, TRUE)
    /\ HasRow(call.a, FALSE)
    /\ ret = Ok(TRUE)

\* C3: for a Monday-to-Friday date d with no record is_trading = true,
\* is_business_day(d) is false exactly when a record for d has is_trading =
\* false, and so true when d has no record at all.
C3_NonTradingHoliday ==
    (/\ call.op = "is_business_day"
     /\ ~SatOrSun(call.a)
     /\ HolidayData.present
     /\ ~HasRow(call.a, TRUE))
        => ret = Ok(~HasRow(call.a, FALSE))

C3_Witness ==
    /\ call.op = "is_business_day"
    /\ ~SatOrSun(call.a)
    /\ HolidayData.present
    /\ ~HasRow(call.a, TRUE)
    /\ HasRow(call.a, FALSE)
    /\ ret = Ok(FALSE)

\* x is a business day: is_business_day(x) returns true
BusinessDay(x) == is_business_day(x) = Ok(TRUE)

\* C4: a date r returned by next_business_day(d) is after d, is a business day,
\* and no date strictly between d and r is one; previous_business_day(d)
\* returns the latest business day before d; neither returns d.
C4_NearestBusinessDay ==
    /\ (call.op = "next_business_day" /\ IsOk(ret)) =>
          /\ ret.val > call.a
          /\ BusinessDay(ret.val)
          /\ \A x \in (call.a + 1)..(ret.val - 1) : ~BusinessDay(x)
    /\ (call.op = "previous_business_day" /\ IsOk(ret)) =>
          /\ ret.val < call.a
          /\ BusinessDay(ret.val)
          /\ \A x \in (ret.val + 1)..(call.a - 1) : ~BusinessDay(x)

C4_Witness ==
    /\ call.op = "next_business_day"
    /\ BusinessDay(call.a)
    /\ IsOk(ret)
    /\ ret.val > call.a + 1
    /\ \E x \in (call.a + 1)..(ret.val - 1) : ~SatOrSun(x)

\* C6: get_business_days(start, end) returns, strictly ascending, exactly the
\* dates of start..end that are business days, and the empty list (no error)
\* when start > end.
C6_BusinessDaysOfRange ==
    call.op = "get_business_days" =>
        /\ call.a > call.b => ret = Ok(<<>>)
        /\ HolidayData.present =>
              /\ IsOk(ret)
              /\ \A i \in 1..(Len(ret.val) - 1) : ret.val[i] < ret.val[i + 1]
              /\ {ret.val[i] : i \in 1..Len(ret.val)}
                    = {x \in call.a..call.b : BusinessDay(x)}

C6_Witness ==
    /\ call.op = "get_business_days"
    /\ HolidayData.present
    /\ IsOk(ret)
    /\ Len(ret.val) >= 2
    /\ \E x \in call.a..call.b : ~SatOrSun(x) /\ ~BusinessDay(x)
    /\ ret.val[Len(ret.val)] = call.b

\* C7: count_business_days(start, end) is the length of
\* get_business_days(start, end) for any holiday data, and 0 when start > end.
C7_CountIsLength ==
    call.op = "count_business_days" =>
        LET days == get_business_days(call.a, call.b)
        IN  /\ IsOk(days) => ret = Ok(Len(days.val))
            /\ ~IsOk(days) => ret = days
            /\ call.a > call.b => ret = Ok(0)

C7_Witness ==
    /\ call.op = "count_business_days"
    /\ call.a < call.b
    /\ IsOk(ret)
    /\ ret.val >= 1
    /\ ret.val < Cardinality({x \in call.a..call.b : ~SatOrSun(x)})

(* ------------------------------------------------------------------ *)
(* Long closures: holiday data that drives the search to its limit      *)
(* ------------------------------------------------------------------ *)

\* Monday 9 February 2026
Anchor == Date(2026, 2, 9)

SearchProbeSpan == 5

SearchProbes == (Anchor - SearchProbeSpan)..(Anchor + SearchProbeSpan)

ClosureSlack == 1

\* number of closed days next to the anchor: around MAX_SEARCH_DAYS - 1, so that
\* the first open day lies just inside, at, or just outside the search limit
ClosureLengths ==
    (MAX_SEARCH_DAYS - 1 - ClosureSlack)..(MAX_SEARCH_DAYS - 1 + ClosureSlack)

\* one non-trading record for every Monday-to-Friday date of lo..hi
ClosureTable(lo, hi) ==
    LET all == [i \in 1..(hi - lo + 1) |-> HolidayRow(lo + i - 1, FALSE)]
        OnWeekday(r) == ~SatOrSun(r.date)
    IN  SelectSeq(all, OnWeekday)

ClosureTables ==
    {ClosureTable(Anchor + 1, Anchor + n) : n \in ClosureLengths}
        \cup {ClosureTable(Anchor - n, Anchor - 1) : n \in ClosureLengths}

NextSearch ==
    \/ \E rows \in ClosureTables : write(HOLIDAY_TRADING, rows)
    \/ \E d \in SearchProbes : NextBusinessDay(d)
    \/ \E d \in SearchProbes : PreviousBusinessDay(d)
    \/ Return

SpecSearch == Init /\ [][NextSearch]_vars

\* C5: next_business_day(d) and previous_business_day(d) test the 365 dates
\* d+1..d+365 (d-1..d-365), return the first business day among them, also one
\* at distance exactly 365, and fail with the search-exhausted error when none
\* of the 365 dates is a business day.
C5_BoundedSearch ==
    /\ (call.op = "next_business_day" /\ HolidayData.present) =>
          LET found == {x \in (call.a + 1)..(call.a + MAX_SEARCH_DAYS) : BusinessDay(x)}
          IN  /\ found # {} =>
                    /\ IsOk(ret)
                    /\ ret.val \in found
                    /\ \A x \in found : ret.val <= x
              /\ found = {} => ret = RuntimeError
    /\ (call.op = "previous_business_day" /\ HolidayData.present) =>
          LET found == {x \in (call.a - MAX_SEARCH_DAYS)..(call.a - 1) : BusinessDay(x)}
          IN  /\ found # {} =>
                    /\ IsOk(ret)
                    /\ ret.val \in found
                    /\ \A x \in found : ret.val >= x
              /\ found = {} => ret = RuntimeError

\* both outcomes at the limit happen: a business day found at distance 365 ...
C5_Witness ==
    /\ call.op = "next_business_day"
    /\ HolidayData.present
    /\ IsOk(ret)
    /\ ret.val = call.a + MAX_SEARCH_DAYS

\* ... and a search that ends with the error although d + 366 is a business day
C5_WitnessExhausted ==
    /\ call.op = "next_business_day"
    /\ HolidayData.present
    /\ ret = RuntimeError
    /\ BusinessDay(call.a + MAX_SEARCH_DAYS + 1)

(* ------------------------------------------------------------------ *)
(* SQ dates: inputs, calls and claims                                   *)
(* ------------------------------------------------------------------ *)

SQContractMonths == {<<2026, 2>>, <<2026, 3>>}

\* Friday 13 February and Friday 13 March 2026
SQDays == {Date(2026, 2, 13), Date(2026, 3, 13)}

\* a row of _sq_records_to_table for SQDateRecord(ContractMonth(year, month), ..)
SQRow(year, month, sq) ==
    [contract_month |-> to_yyyymm(year, month), last_trading_day |-> sq - 1,
     sq_date |-> sq, product_category |-> "index_futures_options"]

SQRows == {SQRow(cm[1], cm[2], sq) : cm \in SQContractMonths, sq \in SQDays}

MaxSQRows == 2

SQTables == UNION {[1..n -> SQRows] : n \in 0..MaxSQRows}

SQYears == {202, 2026}

SQMonths == {2, 3, 6, 13}

SQProbeDates ==
    {Date(2026, 2, 12), Date(2026, 2, 13), Date(2026, 3, 13), Date(2026, 4, 10),
     Date(2050, 3, 13)}

\* JPXIndex.get_sq_date
GetSqDate(year, month) ==
    /\ call = Idle
    /\ call' = [op |-> "get_sq_date", a |-> year, b |-> month, c |-> "", arg |-> <<>>]
    /\ ret' = get_sq_date(year, month)
    /\ UNCHANGED <<cache, now, disk, markets, updating>>

\* JPXIndex.is_sq_date
IsSqDate(d) ==
    /\ call = Idle
    /\ call' = [op |-> "is_sq_date", a |-> d, b |-> 0, c |-> "", arg |-> <<>>]
    /\ ret' = market_is_sq_date(d)
    /\ UNCHANGED <<cache, now, disk, markets, updating>>

\* JPXIndex.get_sq_dates_for_year
GetSqDatesForYear(year) ==
    /\ call = Idle
    /\ call' = [op |-> "get_sq_dates_for_year", a |-> year, b |-> 0, c |-> "", arg |-> <<>>]
    /\ ret' = market_get_sq_dates_for_year(year)
    /\ UNCHANGED <<cache, now, disk, markets, updating>>

NextSQ ==
    \/ \E rows \in SQTables : write(SQ_DATES, rows)
    \/ clear(SQ_DATES)
    \/ \E year \in SQYears, month \in SQMonths : GetSqDate(year, month)
    \/ \E d \in SQProbeDates : IsSqDate(d)
    \/ \E year \in SQYears : GetSqDatesForYear(year)
    \/ Return

SpecSQ == Init /\ [][NextSQ]_vars

SQData == cache[SQ_DATES]

RECURSIVE Number(_)
\* the number a text of decimal digits writes
Number(digits) ==
    IF digits = <<>> THEN 0
    ELSE 10 * Number(SubSeq(digits, 1, Len(digits) - 1)) + digits[Len(digits)]

\* the stored contract month of row i is (year, month): its last two digits
\* write the month, the digits before them the year
RowIsFor(i, year, month) ==
    LET text == SQData.rows[i].contract_month
    IN  /\ Number(SubSeq(text, 1, Len(text) - 2)) = year
        /\ Number(SubSeq(text, Len(text) - 1, Len(text))) = month

RowsFor(year, month) == {i \in 1..Len(SQData.rows) : RowIsFor(i, year, month)}

FirstRowFor(year, month) ==
    CHOOSE i \in RowsFor(year, month) : \A j \in RowsFor(year, month) : i <= j

\* C8: with settlement data present, get_sq_date(year, month) for year >= 0 and
\* month in 1..12 returns the sq_date of the record of that contract month, or
\* fails with SQDataNotFoundError(year, month) when there is none; it returns no
\* None and raises no other error.
C8_GetSqDate ==
    (/\ call.op = "get_sq_date"
     /\ SQData.present
     /\ call.a >= 0
     /\ call.b \in 1..12) =>
        /\ RowsFor(call.a, call.b) # {} =>
              ret = Ok(SQData.rows[FirstRowFor(call.a, call.b)].sq_date)
        /\ RowsFor(call.a, call.b) = {} => ret = SQDataNotFoundError(call.a, call.b)
        /\ IsOk(ret) => ret.val # None
        /\ ~IsOk(ret) => ret.exc = "SQDataNotFoundError"

C8_Witness ==
    /\ call.op = "get_sq_date"
    /\ SQData.present
    /\ Len(SQData.rows) >= 1
    /\ call.b \in 1..12
    /\ RowsFor(call.a, call.b) = {}
    /\ ret = SQDataNotFoundError(call.a, call.b)

\* C9: is_sq_date(d) is true iff the record of (d.year, d.month) exists with
\* sq_date = d, false when it exists with another date, and fails with
\* SQDataNotFoundError when no record of (d.year, d.month) exists.
C9_IsSqDate ==
    (call.op = "is_sq_date" /\ SQData.present) =>
        LET year == YearOf(call.a)
            month == MonthOf(call.a)
        IN  /\ RowsFor(year, month) # {} =>
                  ret = Ok(SQData.rows[FirstRowFor(year, month)].sq_date = call.a)
            /\ RowsFor(year, month) = {} => ret = SQDataNotFoundError(year, month)

C9_Witness ==
    /\ call.op = "is_sq_date"
    /\ SQData.present
    /\ Len(SQData.rows) >= 1
    /\ RowsFor(YearOf(call.a), MonthOf(call.a)) = {}
    /\ ret = SQDataNotFoundError(YearOf(call.a), MonthOf(call.a))

\* C10, as the Market interface documents is_sq_date: for a date whose period
\* has no SQ data the market answers False and raises nothing.
C10_FalseOutsideDataRange ==
    (/\ call.op = "is_sq_date"
     /\ SQData.present
     /\ Len(SQData.rows) >= 1
     /\ RowsFor(YearOf(call.a), MonthOf(call.a)) = {})
        => ret = Ok(FALSE)

\* the year and the month the stored contract month of row i writes
RowYear(i) ==
    LET text == SQData.rows[i].contract_month
    IN  Number(SubSeq(text, 1, Len(text) - 2))

\* the stored records are one per contract month, with one SQ date each
OnePerContractMonth ==
    \A i, j \in 1..Len(SQData.rows) :
        i # j => /\ SQData.rows[i].contract_month # SQData.rows[j].contract_month
                 /\ SQData.rows[i].sq_date # SQData.rows[j].sq_date

\* C11: with one record per contract month stored, get_sq_dates_for_year(y)
\* fails with SQDataNotFoundError when no record has contract-month year y, and
\* otherwise returns, strictly ascending, exactly the SQ dates of the records
\* of year y (at most 12), and no date of a record of another year.
C11_YearEnumeration ==
    (call.op = "get_sq_dates_for_year" /\ SQData.present /\ OnePerContractMonth) =>
        LET ofYear == {i \in 1..Len(SQData.rows) : RowYear(i) = call.a}
        IN  /\ ofYear = {} => IsErr(ret, "SQDataNotFoundError")
            /\ ofYear # {} =>
                  /\ IsOk(ret)
                  /\ Len(ret.val) <= 12
                  /\ \A k \in 1..(Len(ret.val) - 1) : ret.val[k] < ret.val[k + 1]
                  /\ {ret.val[k] : k \in 1..Len(ret.val)}
                        = {SQData.rows[i].sq_date : i \in ofYear}

\* the dates a finished call of get_sq_dates_for_year returned
Enumerated == {ret.val[k] : k \in 1..Len(ret.val)}

\* the dates the membership test is asked about: the stored SQ dates and
\* the probe dates
MembershipDates == SQProbeDates \cup {SQData.rows[i].sq_date : i \in 1..Len(SQData.rows)}

\* every stored SQ date lies in the contract month of its record
SQDateInContractMonth ==
    \A i \in 1..Len(SQData.rows) :
        RowIsFor(i, YearOf(SQData.rows[i].sq_date), MonthOf(SQData.rows[i].sq_date))

\* C28 as stated: when get_sq_dates_for_year(y) succeeds, every date of the
\* result is an SQ date by is_sq_date, and every date of year y that is an
\* SQ date by is_sq_date is in the result
C28_EnumerationIsMembership ==
    (call.op = "get_sq_dates_for_year" /\ IsOk(ret)) =>
        /\ \A x \in Enumerated : is_sq_date(x) = Ok(TRUE)
        /\ \A x \in MembershipDates :
              (YearOf(x) = call.a /\ is_sq_date(x) = Ok(TRUE)) => x \in Enumerated

\* C28 amended: every date of year y that is_sq_date accepts is in the
\* result; a date of the result is accepted by is_sq_date exactly when it is
\* the SQ date of the first record of the contract month the date lies in,
\* which is every date of the result when the records are one per contract
\* month with the SQ date inside that month
C28_MembershipWithinEnumeration ==
    (call.op = "get_sq_dates_for_year" /\ IsOk(ret)) =>
        /\ \A x \in MembershipDates :
              (YearOf(x) = call.a /\ is_sq_date(x) = Ok(TRUE)) => x \in Enumerated
        /\ \A x \in Enumerated :
              is_sq_date(x) = Ok(TRUE)
              <=> /\ RowsFor(YearOf(x), MonthOf(x)) # {}
                  /\ SQData.rows[FirstRowFor(YearOf(x), MonthOf(x))].sq_date = x
        /\ (OnePerContractMonth /\ SQDateInContractMonth)
           => \A x \in Enumerated : is_sq_date(x) = Ok(TRUE)

\* two records, February and March 2026, each with the SQ date of its
\* month: the year lists both dates and is_sq_date accepts both
C28_Witness ==
    /\ call.op = "get_sq_dates_for_year"
    /\ call.a = 2026
    /\ OnePerContractMonth
    /\ SQDateInContractMonth
    /\ ret = Ok(<<Date(2026, 2, 13), Date(2026, 3, 13)>>)
    /\ is_sq_date(Date(2026, 2, 13)) = Ok(TRUE)
    /\ is_sq_date(Date(2026, 3, 13)) = Ok(TRUE)

(* ------------------------------------------------------------------ *)
(* Trading sessions: inputs, calls and claims                           *)
(* ------------------------------------------------------------------ *)

\* Friday 6, Saturday 7 and Wednesday 11 February 2026 (a holiday); Sunday
\* 8 March, Wednesday 1 July and Sunday 1 November 2026, the days New
\* York's daylight saving time starts, is in force and ends
SessionDates ==
    {Date(2026, 2, 6), Date(2026, 2, 7), Date(2026, 2, 11),
     Date(2026, 3, 8), Date(2026, 7, 1), Date(2026, 11, 1)}

\* Tokyo times of day at and next to the session boundaries, to the second
TokyoTimes ==
    {time(0, 0), time(5, 59), time(5, 59) + 59, time(6, 0),
     time(8, 44), time(8, 44) + 59, time(8, 45), time(10, 0),
     time(15, 45), time(15, 45) + 1, time(15, 46),
     time(16, 59), time(16, 59) + 59, time(17, 0), time(23, 59) + 59}

Tzinfos == {NoTzinfo, UTC, ASIA_TOKYO, NEW_YORK}

\* the offsets from UTC a zone has in the course of a year
ZoneOffsets(tz) ==
    CASE tz = UTC -> {0}
      [] tz = ASIA_TOKYO -> {9 * 3600}
      [] tz = NEW_YORK -> {0 - 5 * 3600, 0 - 4 * 3600}

\* the wall-clock times in a zone that are the Tokyo times above under one
\* of the zone's offsets
WallTimes(tz) ==
    IF tz = NoTzinfo THEN TokyoTimes
    ELSE {(t - 9 * 3600 + offset) % 86400 : t \in TokyoTimes, offset \in ZoneOffsets(tz)}

\* clock readings: Tokyo Friday 10:00, Saturday 06:00 and Saturday 10:00
SessionClock ==
    {datetime(Date(2026, 2, 6), time(1, 0), UTC),
     datetime(Date(2026, 2, 6), time(21, 0), UTC),
     datetime(Date(2026, 2, 7), time(1, 0), UTC)}

SessionHolidayTables == {<<>>, <<HolidayRow(Date(2026, 2, 11), FALSE)>>}

\* time passes: the clock reads t, a later instant
Tick(t) ==
    /\ call = Idle
    /\ earlier(now, t)
    /\ now' = t
    /\ UNCHANGED <<cache, call, ret, disk, markets, updating>>

\* the record of a call of get_session or is_trading_hours
SessionCall(op, given, d, t, tz) ==
    IF given THEN [op |-> op, a |-> d, b |-> t, c |-> tz, arg |-> <<>>]
    ELSE [op |-> op, a |-> None, b |-> 0, c |-> NoTzinfo, arg |-> <<>>]

\* JPXIndex.get_session
GetSession(given, d, t, tz) ==
    /\ call = Idle
    /\ call' = SessionCall("get_session", given, d, t, tz)
    /\ ret' = get_session(given, datetime(d, t, tz))
    /\ UNCHANGED <<cache, now, disk, markets, updating>>

\* JPXIndex.is_trading_hours
IsTradingHours(given, d, t, tz) ==
    /\ call = Idle
    /\ call' = SessionCall("is_trading_hours", given, d, t, tz)
    /\ ret' = is_trading_hours(given, datetime(d, t, tz))
    /\ UNCHANGED <<cache, now, disk, markets, updating>>

NextSession ==
    \/ \E rows \in SessionHolidayTables : write(HOLIDAY_TRADING, rows)
    \/ \E t \in SessionClock : Tick(t)
    \/ \E d \in SessionDates, tz \in Tzinfos : \E t \in WallTimes(tz) :
            GetSession(TRUE, d, t, tz)
    \/ GetSession(FALSE, None, 0, NoTzinfo)
    \/ \E d \in SessionDates, tz \in Tzinfos : \E t \in WallTimes(tz) :
            IsTradingHours(TRUE, d, t, tz)
    \/ IsTradingHours(FALSE, None, 0, NoTzinfo)
    \/ Return

SpecSession == Init /\ [][NextSession]_vars

SessionOps == {"get_session", "is_trading_hours"}

\* the call passed a datetime without tzinfo
NaiveCall == call.op \in SessionOps /\ call.a # None /\ call.c = NoTzinfo

\* the call passed an aware datetime, or none (the clock is read)
AwareCall == call.op \in SessionOps /\ ~NaiveCall

\* seconds from Friday 6 February 2026 00:00 UTC to the instant of the call
CallInstant ==
    IF call.a = None THEN (now.date - WindowStart) * 86400 + now.sec
    ELSE (call.a - WindowStart) * 86400 + call.b
         - utcoffset(call.c, [date |-> call.a, sec |-> call.b])

\* seconds from Friday 6 February 2026 00:00 UTC to the instant the aware
\* datetime (d, t, tz) names
InstantOf(d, t, tz) ==
    (d - WindowStart) * 86400 + t - utcoffset(tz, [date |-> d, sec |-> t])

\* the Tokyo time of day, and the Tokyo date, of the instant of the call
TokyoSec == (CallInstant + 9 * 3600) % 86400

TokyoDate == WindowStart + ((CallInstant + 9 * 3600) \div 86400)

InDayWindow(t) == time(8, 45) <= t /\ t <= time(15, 45)

InNightWindow(t) == t >= time(17, 0) \/ t < time(6, 0)

\* C12: for an aware instant get_session returns one of DAY, NIGHT, CLOSED,
\* fixed by the Tokyo time of day t alone: DAY iff 08:45 <= t <= 15:45, NIGHT
\* iff t >= 17:00 or t < 06:00, CLOSED otherwise; the two windows are disjoint.
C12_SessionWindows ==
    (call.op = "get_session" /\ AwareCall) =>
        /\ IsOk(ret)
        /\ ret.val \in TradingSession
        /\ ret.val = DAY <=> InDayWindow(TokyoSec)
        /\ ret.val = NIGHT <=> InNightWindow(TokyoSec)
        /\ ret.val = CLOSED <=> (~InDayWindow(TokyoSec) /\ ~InNightWindow(TokyoSec))
        /\ ~(InDayWindow(TokyoSec) /\ InNightWindow(TokyoSec))

\* the last second of the day session, asked in another zone than Tokyo
C12_Witness ==
    /\ call.op = "get_session"
    /\ AwareCall
    /\ call.c = NEW_YORK
    /\ TokyoSec = time(15, 45)
    /\ ret = Ok(DAY)

\* C13: for a naive datetime, whatever its date and time of day, get_session
\* and is_trading_hours raise TimezoneRequiredError and return no session.
C13_NaiveRejected ==
    NaiveCall => ret = Raise("TimezoneRequiredError", <<>>)

C13_Witness ==
    /\ call.op = "is_trading_hours"
    /\ NaiveCall
    /\ call.b = time(10, 0)
    /\ ret = Raise("TimezoneRequiredError", <<>>)

\* C14: get_session gives two aware datetimes of the same instant in different
\* zones the same session, that of the instant's Tokyo wall-clock time; UTC
\* 01:00 is classified as Tokyo 10:00, DAY.
C14_SameInstantSameSession ==
    (call.op = "get_session" /\ call.a # None /\ AwareCall) =>
        /\ ret = Ok(session_at(TokyoSec))
        /\ \A tz \in Tzinfos \ {NoTzinfo}, d \in (call.a - 1)..(call.a + 1) :
              \A t \in WallTimes(tz) :
                  InstantOf(d, t, tz) = CallInstant
                  => get_session(TRUE, datetime(d, t, tz)) = ret
        /\ (call.c = UTC /\ call.b = time(1, 0)) => ret = Ok(DAY)

C14_Witness ==
    /\ call.op = "get_session"
    /\ call.a = Date(2026, 2, 6)
    /\ call.b = time(1, 0)
    /\ call.c = UTC
    /\ ret = Ok(DAY)

\* C15: is_trading_hours is true iff get_session is not CLOSED, whatever the
\* date and the holiday data: at 10:00 Tokyo time it is true on a Saturday and
\* on a non-trading holiday.
C15_TradingHoursIsNotClosed ==
    (call.op = "is_trading_hours" /\ AwareCall) =>
        /\ ret = Ok(~(~InDayWindow(TokyoSec) /\ ~InNightWindow(TokyoSec)))
        /\ TokyoSec = time(10, 0) => ret = Ok(TRUE)

\* 10:00 in Tokyo on the non-trading holiday the holiday data records
C15_Witness ==
    /\ call.op = "is_trading_hours"
    /\ AwareCall
    /\ TokyoSec = time(10, 0)
    /\ HolidayData.present
    /\ HasRow(TokyoDate, FALSE)
    /\ is_business_day(TokyoDate) = Ok(FALSE)
    /\ ret = Ok(TRUE)

\* 10:00 in Tokyo on a Saturday
C15_WitnessSaturday ==
    /\ call.op = "is_trading_hours"
    /\ AwareCall
    /\ TokyoSec = time(10, 0)
    /\ Weekday(TokyoDate) = 5
    /\ ret = Ok(TRUE)

(* ------------------------------------------------------------------ *)
(* Data query layer called directly: inputs, calls and claims           *)
(* ------------------------------------------------------------------ *)

QuerySQTables == {<<>>, <<SQRow(2026, 3, Date(2026, 3, 13))>>}

QueryHolidayTables ==
    {<<>>, <<HolidayRow(Date(2026, 2, 11), FALSE)>>, <<HolidayRow(Date(2026, 2, 11), TRUE)>>}

\* JPXDataQuery.get_sq_date
QueryGetSqDate(year, month) ==
    /\ call = Idle
    /\ call' = [op |-> "query.get_sq_date", a |-> year, b |-> month, c |-> "", arg |-> <<>>]
    /\ ret' = query_get_sq_date(year, month)
    /\ UNCHANGED <<cache, now, disk, markets, updating>>

\* JPXDataQuery.get_sq_dates_for_year
QueryGetSqDatesForYear(year) ==
    /\ call = Idle
    /\ call' = [op |-> "query.get_sq_dates_for_year", a |-> year, b |-> 0, c |-> "", arg |-> <<>>]
    /\ ret' = query_get_sq_dates_for_year(year)
    /\ UNCHANGED <<cache, now, disk, markets, updating>>

\* JPXDataQuery.is_holiday_trading_day
QueryIsHolidayTradingDay(d) ==
    /\ call = Idle
    /\ call' = [op |-> "query.is_holiday_trading_day", a |-> d, b |-> 0, c |-> "", arg |-> <<>>]
    /\ ret' = is_holiday_trading_day(d)
    /\ UNCHANGED <<cache, now, disk, markets, updating>>

\* JPXDataQuery.get_non_trading_holidays
QueryGetNonTradingHolidays ==
    /\ call = Idle
    /\ call' = [op |-> "query.get_non_trading_holidays", a |-> 0, b |-> 0, c |-> "", arg |-> <<>>]
    /\ ret' = get_non_trading_holidays
    /\ UNCHANGED <<cache, now, disk, markets, updating>>

NextQuery ==
    \/ \E rows \in QuerySQTables : write(SQ_DATES, rows)
    \/ \E rows \in QueryHolidayTables : write(HOLIDAY_TRADING, rows)
    \/ \E kind \in DataType : clear(kind)
    \/ \E year \in SQYears, month \in SQMonths : QueryGetSqDate(year, month)
    \/ \E year \in SQYears : QueryGetSqDatesForYear(year)
    \/ \E d \in ProbeDates : QueryIsHolidayTradingDay(d)
    \/ QueryGetNonTradingHolidays
    \/ Return

SpecQuery == Init /\ [][NextQuery]_vars

\* the data kind each query operation reads
KindOf(op) ==
    IF op \in {"query.get_sq_date", "query.get_sq_dates_for_year"} THEN SQ_DATES
    ELSE HOLIDAY_TRADING

QueryOps ==
    {"query.get_sq_date", "query.get_sq_dates_for_year",
     "query.is_holiday_trading_day", "query.get_non_trading_holidays"}

\* C16: a query operation whose data kind was never written, or was cleared,
\* fails with CacheNotAvailableError; with the kind present it raises no such
\* error, and answers None, [], False or the empty set when no record matches.
C16_MissingCacheError ==
    call.op \in QueryOps =>
        /\ ~cache[KindOf(call.op)].present => ret = Raise("CacheNotAvailableError", <<>>)
        /\ (cache[KindOf(call.op)].present /\ cache[KindOf(call.op)].rows = <<>>) =>
              \/ ret \in {Ok(None), Ok(<<>>), Ok(FALSE), Ok({})}
              \/ ret = Raise("ValidationError", <<>>)

(* ------------------------------------------------------------------ *)
(* JPXDataCache and the cache command: inputs, calls and claims         *)
(* ------------------------------------------------------------------ *)

\* clock readings: one second before, at, and one second after the expiry of
\* what is written when the program starts
StoreClock ==
    {datetime(WindowStart, time(23, 59) + 59, UTC),
     datetime(WindowStart + 1, 0, UTC),
     datetime(WindowStart + 1, 1, UTC)}

StoreSQRecords ==
    {[year |-> 2026, month |-> m, sq_date |-> Date(2026, m, 13), product_type |-> "index"] :
        m \in {2, 3}}

StoreHolidayRecords == {HolidayRow(Date(2026, 2, 11), TRUE)}

MaxStoreRows == 2

StoreSQTables == UNION {[1..n -> StoreSQRecords] : n \in 0..MaxStoreRows}

StoreHolidayTables == UNION {[1..n -> StoreHolidayRecords] : n \in 0..MaxStoreRows}

\* the records _create_placeholder_cache writes
PlaceholderSQDates ==
    [i \in 1..48 |->
        LET year == 2024 + ((i - 1) \div 12)
            month == ((i - 1) % 12) + 1
        IN  [year |-> year, month |-> month, sq_date |-> Date(year, month, 10),
             product_type |-> "index"]]

PlaceholderHolidays ==
    [i \in 1..3 |->
        [date |-> Date(2026, 1, i), holiday_name |-> IF i = 1 THEN "gantan" ELSE "kyugyobi",
         is_trading |-> FALSE, is_confirmed |-> TRUE]]

\* the keyword arguments _create_placeholder_cache gives CacheMetadata
PlaceholderMetadataArgs ==
    [last_updated |-> datetime_now(ASIA_TOKYO),
     version |-> "0.0.1-placeholder",
     source_urls |-> [sq_dates |-> "placeholder", holidays |-> "placeholder"],
     cache_valid_until |-> plus_hours(datetime_now(ASIA_TOKYO), CACHE_VALIDITY_HOURS)]

\* the file that holds the records of a data kind
RecordsFile(kind) == IF kind = SQ_DATES THEN SQ_DATES_FILE ELSE HOLIDAYS_FILE

\* the number of records stored for a kind, 0 when there are none
StoredCount(kind) ==
    IF disk[RecordsFile(kind)].exists THEN Len(disk[RecordsFile(kind)].content.rows) ELSE 0

\* the validity the metadata on disk gives at the present clock reading
ValidNow ==
    /\ disk[METADATA_FILE].exists
    /\ earlier(now, JPXDataCache_read_metadata.val.expires_at)

\* the metadata a caller builds for record_count records of a kind:
\* fetched now on the UTC clock, expiring 24 hours later
MetadataNow(kind, record_count) ==
    CacheMetadata([data_type |-> kind,
                   source_url |-> "https://example.com/data.xlsx",
                   fetched_at |-> datetime_now(UTC),
                   expires_at |-> plus_hours(datetime_now(UTC), CACHE_VALIDITY_HOURS),
                   schema_version |-> 1,
                   record_count |-> record_count])

StoreCall(op, kind, arg) == [op |-> op, a |-> 0, b |-> 0, c |-> kind, arg |-> arg]

\* JPXDataCache.write_sq_dates
WriteSqDates(records) ==
    /\ call = Idle
    /\ call' = StoreCall("write_sq_dates", SQ_DATES, <<records>>)
    /\ disk' = JPXDataCache_write_sq_dates(records)
    /\ ret' = Ok(None)
    /\ UNCHANGED <<cache, now, markets, updating>>

\* JPXDataCache.write_holidays
WriteHolidays(records) ==
    /\ call = Idle
    /\ call' = StoreCall("write_holidays", HOLIDAY_TRADING, <<records>>)
    /\ disk' = JPXDataCache_write_holidays(records)
    /\ ret' = Ok(None)
    /\ UNCHANGED <<cache, now, markets, updating>>

\* JPXDataCache.write_metadata
WriteMetadata(kind, record_count) ==
    /\ call = Idle
    /\ call' = StoreCall("write_metadata", kind, <<MetadataNow(kind, record_count).val>>)
    /\ disk' = JPXDataCache_write_metadata(MetadataNow(kind, record_count).val)
    /\ ret' = Ok(None)
    /\ UNCHANGED <<cache, now, markets, updating>>

\* a read of the SQ dates that refuses them once the metadata has expired
ReadSqDatesUnlessExpired ==
    /\ call = Idle
    /\ call' = StoreCall("read_sq_dates", SQ_DATES, <<>>)
    /\ ret' = IF disk[METADATA_FILE].exists /\ ~ValidNow
              THEN CacheNotAvailableError(0)
              ELSE JPXDataCache_read_sq_dates
    /\ UNCHANGED <<cache, now, disk, markets, updating>>

\* JPXDataCache.read_sq_dates
ReadSqDates ==
    /\ call = Idle
    /\ call' = StoreCall("read_sq_dates", SQ_DATES, <<>>)
    /\ ret' = JPXDataCache_read_sq_dates
    /\ UNCHANGED <<cache, now, disk, markets, updating>>

\* JPXDataCache.read_holidays
ReadHolidays ==
    /\ call = Idle
    /\ call' = StoreCall("read_holidays", HOLIDAY_TRADING, <<>>)
    /\ ret' = JPXDataCache_read_holidays
    /\ UNCHANGED <<cache, now, disk, markets, updating>>

\* JPXDataCache.read_metadata
ReadMetadata ==
    /\ call = Idle
    /\ call' = StoreCall("read_metadata", "", <<>>)
    /\ ret' = JPXDataCache_read_metadata
    /\ UNCHANGED <<cache, now, disk, markets, updating>>

\* JPXDataCache.is_cache_available
IsCacheAvailable ==
    /\ call = Idle
    /\ call' = StoreCall("is_cache_available", "", <<>>)
    /\ ret' = is_cache_available
    /\ UNCHANGED <<cache, now, disk, markets, updating>>

\* JPXDataCache.get_sq_date
DataCacheGetSqDate(year, month) ==
    /\ call = Idle
    /\ call' = [op |-> "cache.get_sq_date", a |-> year, b |-> month, c |-> SQ_DATES,
                arg |-> <<>>]
    /\ ret' = JPXDataCache_get_sq_date(year, month)
    /\ UNCHANGED <<cache, now, disk, markets, updating>>

\* JPXDataCache.is_holiday_trading_day
DataCacheIsHolidayTradingDay(d) ==
    /\ call = Idle
    /\ call' = [op |-> "cache.is_holiday_trading_day", a |-> d, b |-> 0,
                c |-> HOLIDAY_TRADING, arg |-> <<>>]
    /\ ret' = JPXDataCache_is_holiday_trading_day(d)
    /\ UNCHANGED <<cache, now, disk, markets, updating>>

\* JPXDataCache.clear
Clear ==
    /\ call = Idle
    /\ call' = StoreCall("clear", "", <<>>)
    /\ disk' = JPXDataCache_clear
    /\ ret' = Ok(None)
    /\ UNCHANGED <<cache, now, markets, updating>>

\* the command `cache update`: the fetcher module has no fetch_and_update_cache,
\* so the import fails and _create_placeholder_cache runs: it writes the SQ
\* dates, then the holidays, then builds the metadata and writes it; an
\* exception of the constructor leaves the command before write_metadata
CacheUpdate ==
    /\ call = Idle
    /\ call' = StoreCall("cache_update", "", <<>>)
    /\ LET written == [disk EXCEPT
                          ![SQ_DATES_FILE] = File(from_pylist(PlaceholderSQDates, SQ_DATES_SCHEMA)),
                          ![HOLIDAYS_FILE] = File(from_pylist(PlaceholderHolidays, HOLIDAYS_SCHEMA))]
           metadata == CacheMetadata(PlaceholderMetadataArgs)
       IN  IF metadata.tag = "err"
           THEN disk' = written /\ ret' = metadata
           ELSE /\ disk' = [written EXCEPT ![METADATA_FILE] = File(model_dump(metadata.val))]
                /\ ret' = Ok("success")
    /\ UNCHANGED <<cache, now, markets, updating>>

NextStore ==
    \/ \E records \in StoreSQTables : WriteSqDates(records)
    \/ \E records \in StoreHolidayTables : WriteHolidays(records)
    \/ \E kind \in DataType, record_count \in 0..MaxStoreRows :
          WriteMetadata(kind, record_count)
    \/ ReadSqDates
    \/ ReadHolidays
    \/ ReadMetadata
    \/ IsCacheAvailable
    \/ \E month \in {2, 6} : DataCacheGetSqDate(2026, month)
    \/ DataCacheIsHolidayTradingDay(Date(2026, 2, 11))
    \/ Clear
    \/ CacheUpdate
    \/ \E t \in StoreClock : Tick(t)
    \/ Return

SpecStore == Init /\ [][NextStore]_vars

\* what a reader of a kind gets from the directory
StoredRecords(kind) ==
    IF kind = SQ_DATES THEN JPXDataCache_read_sq_dates ELSE JPXDataCache_read_holidays

\* the metadata a reader of a kind gets: a sequence of one value, or of none
StoredMetadata(kind) ==
    LET m == JPXDataCache_read_metadata
    IN  IF disk[METADATA_FILE].exists /\ m.tag = "ok" /\ m.val.data_type = kind
        THEN <<m.val>>
        ELSE <<>>

\* two metadata values with the same fields, datetimes compared as instants
SameMetadata(m1, m2) ==
    /\ m1.data_type = m2.data_type
    /\ m1.source_url = m2.source_url
    /\ m1.schema_version = m2.schema_version
    /\ m1.record_count = m2.record_count
    /\ ~earlier(m1.fetched_at, m2.fetched_at) /\ ~earlier(m2.fetched_at, m1.fetched_at)
    /\ ~earlier(m1.expires_at, m2.expires_at) /\ ~earlier(m2.expires_at, m1.expires_at)

\* this step is a call that writes or clears the kind
Touches(kind) ==
    /\ call = Idle
    /\ \/ call'.op \in {"write_sq_dates", "write_holidays", "write_metadata"} /\ call'.c = kind
       \/ call'.op \in {"clear", "cache_update"}

\* C17: records written for a kind are read back the same, in the same order,
\* with its metadata, until the next write or clear of that kind; nothing
\* done to the other kind changes them
C17_WriteReadRoundTrip ==
    [][/\ \A kind \in DataType :
            (call = Idle /\ call'.op \in {"write_sq_dates", "write_holidays"} /\ call'.c = kind)
            => StoredRecords(kind)' = Ok(call'.arg[1])
       /\ \A kind \in DataType :
            (call = Idle /\ call'.op = "write_metadata" /\ call'.c = kind)
            => /\ StoredMetadata(kind)' # <<>>
               /\ SameMetadata(StoredMetadata(kind)'[1], call'.arg[1])
       /\ \A kind \in DataType :
            ~Touches(kind)
            => /\ StoredRecords(kind)' = StoredRecords(kind)
               /\ StoredMetadata(kind)' = StoredMetadata(kind)]_vars

\* C18: records of a kind are stored exactly when its metadata is, and the
\* metadata counts the records stored
C18_RecordsWithMetadata ==
    \A kind \in DataType :
        /\ disk[RecordsFile(kind)].exists <=> StoredMetadata(kind) # <<>>
        /\ StoredMetadata(kind) # <<>>
           => StoredMetadata(kind)[1].record_count = StoredCount(kind)

\* C19: is_cache_available answers False without metadata, True strictly
\* before the stored expiry, and False at the expiry and after it
C19_ValidityByExpiry ==
    call.op = "is_cache_available" => ret = Ok(ValidNow)

\* the rows a file of the directory holds
RowsOf(f) == disk[f].content.rows

\* C20: a read returns the stored rows whether or not they have expired, and
\* is refused only when no rows are stored; the queries of the directory
\* answer from the stored rows alone
C20_ReadIgnoresExpiry ==
    /\ call.op = "read_sq_dates"
       => IF disk[SQ_DATES_FILE].exists
          THEN ret = Ok(RowsOf(SQ_DATES_FILE))
          ELSE ret.tag = "err"
    /\ call.op = "read_holidays"
       => IF disk[HOLIDAYS_FILE].exists
          THEN ret = Ok(RowsOf(HOLIDAYS_FILE))
          ELSE ret.tag = "err"
    /\ (call.op = "cache.get_sq_date" /\ disk[SQ_DATES_FILE].exists)
       => ret = Ok(IF \E i \in DOMAIN RowsOf(SQ_DATES_FILE) :
                         /\ RowsOf(SQ_DATES_FILE)[i].year = call.a
                         /\ RowsOf(SQ_DATES_FILE)[i].month = call.b
                   THEN RowsOf(SQ_DATES_FILE)[
                            CHOOSE i \in DOMAIN RowsOf(SQ_DATES_FILE) :
                                /\ RowsOf(SQ_DATES_FILE)[i].year = call.a
                                /\ RowsOf(SQ_DATES_FILE)[i].month = call.b
                                /\ \A j \in 1..(i - 1) :
                                       ~(/\ RowsOf(SQ_DATES_FILE)[j].year = call.a
                                         /\ RowsOf(SQ_DATES_FILE)[j].month = call.b)].sq_date
                   ELSE None)

\* rows are read back after the metadata next to them has expired
C20_Witness ==
    /\ call.op = "read_sq_dates"
    /\ disk[METADATA_FILE].exists
    /\ ~ValidNow
    /\ ret.tag = "ok"
    /\ Len(ret.val) = MaxStoreRows

(* ------------------------------------------------------------------ *)
(* Cache API and cache commands: inputs, calls and claims               *)
(* ------------------------------------------------------------------ *)

MaxFetched == 2

\* the i-th SQDateRecord of the store, built as the tests build it with a
\* ContractMonth: contract months from February 2026
StoredSQRecord(i) ==
    SQDateRecord([contract_month |-> [class |-> "ContractMonth",
                                      val |-> [year |-> 2026, month |-> 1 + i]],
                  last_trading_day |-> Date(2026, 1 + i, 12),
                  sq_date |-> Date(2026, 1 + i, 13),
                  product_category |-> "index_futures_options"]).val

\* the i-th HolidayTradingRecord of the store
StoredHolidayRecord(i) ==
    HolidayTradingRecord([date |-> Date(2026, 2, 10 + i), holiday_name |-> "holiday",
                          is_trading |-> (i % 2 = 1), is_confirmed |-> TRUE]).val

\* the tables a caller of ParquetCacheManager.write stores
StoredSQTables ==
    {sq_records_to_table([i \in 1..n |-> StoredSQRecord(i)]) : n \in 1..MaxFetched}

StoredHolidayTables ==
    {holiday_records_to_table([i \in 1..n |-> StoredHolidayRecord(i)]) : n \in 1..MaxFetched}

StoredTables(kind) == IF kind = SQ_DATES THEN StoredSQTables ELSE StoredHolidayTables

\* a row of the yearly file of the Nikkei 225 options with its three dates
OptionRow ==
    [product |-> TextCell(SQ_DATE_PRODUCT),
     contract_month |-> DateCell(Date(2026, 3, 1)),
     last_trading_day |-> DateCell(Date(2026, 3, 12)),
     exercise_date |-> DateCell(Date(2026, 3, 13))]

\* a row of another product, which has no exercise date
FuturesRow ==
    [product |-> TextCell("Nikkei 225 futures"),
     contract_month |-> DateCell(Date(2026, 3, 1)),
     last_trading_day |-> DateCell(Date(2026, 3, 12)),
     exercise_date |-> NoneCell]

\* the rows of a yearly file: rows of the options with their dates and rows
\* of other products
SQSheetRows == {OptionRow, FuturesRow}

\* rows of the holiday trading file: 11 February with trading, 10 February
\* without, 23 February with a datetime in the name column, and a row without
\* a date
HolidaySheetRows ==
    {[holiday_date |-> DateCell(Date(2026, 2, 11)), holiday_name |-> TextCell("holiday"),
      status |-> TextCell(JISSHI_SURU)],
     [holiday_date |-> DateCell(Date(2026, 2, 10)), holiday_name |-> TextCell("holiday"),
      status |-> TextCell("jisshi shinai")],
     [holiday_date |-> DateCell(Date(2026, 2, 23)), holiday_name |-> DateCell(Date(2026, 2, 23)),
      status |-> TextCell(JISSHI_SURU)],
     [holiday_date |-> NoneCell, holiday_name |-> TextCell("holiday"),
      status |-> NoneCell]}

\* what the server can answer for a file whose rows are taken from sheet_rows
Responses(sheet_rows) ==
    {Response(FALSE, FALSE, FALSE, FALSE, <<>>),
     Response(TRUE, FALSE, FALSE, FALSE, <<>>),
     Response(TRUE, TRUE, FALSE, FALSE, <<>>),
     Response(TRUE, TRUE, TRUE, FALSE, <<>>)}
        \cup {Response(TRUE, TRUE, TRUE, TRUE, rows) :
                 rows \in UNION {[1..n -> sheet_rows] : n \in 0..MaxFetched}}

SQFileResponses == Responses(SQSheetRows)

HolidayResponses == Responses(HolidaySheetRows)

\* what the server can answer to fetch_sq_dates(years): one response for
\* each of the years
SQResponses(years) == [1..Len(years) -> SQFileResponses]

\* the argument years: None (no element) or a list of years (one element)
UpdateYears == {<<>>, <<<<2030>>>>}

\* the lists of years update_cache asks fetch_sq_dates for: the default at
\* the clock readings, and the lists it is given
FetchYears == {<<2026, 2027>>} \cup {years[1] : years \in UpdateYears \ {<<>>}}

\* the server delivers the file: the request succeeds and the content is a
\* workbook whose active worksheet has the header row
Delivers(response) ==
    response.http /\ response.xlsx /\ response.active /\ response.header

\* the server delivers the files of all years, with a dated row of the
\* options among their rows
DeliversSQ(responses) ==
    /\ \A i \in DOMAIN responses : Delivers(responses[i])
    /\ \E i \in DOMAIN responses : \E j \in DOMAIN responses[i].rows :
          responses[i].rows[j] = OptionRow

\* what fetch_sq_dates(years) can return or raise, for each list of years
FetchedSQ ==
    [years \in FetchYears |->
        {fetch_sq_dates(years, responses) : responses \in SQResponses(years)}]

\* what fetch_holiday_trading() can return or raise
FetchedHolidays == {fetch_holiday_trading(response) : response \in HolidayResponses}

\* what comes back to the call of update_cache that waits for a download
Fetched(frame) ==
    IF frame.pc = "fetch_sq_dates" THEN FetchedSQ[frame.years]
    ELSE IF frame.pc = "fetch_holiday_trading" THEN FetchedHolidays
    ELSE {}

\* update_cache(force, years) up to its first download: the years default to
\* the current and the next year, the clock is read, the SQ dates are checked
UpdateCache(force, years) ==
    /\ updating.pc = "none"
    /\ updating' = from_sq_check([pc |-> "called", force |-> force,
                                  years |-> IF years = <<>> THEN get_default_years
                                            ELSE years[1],
                                  now |-> datetime_now(UTC), ret |-> NoResult],
                                 cache)
    /\ UNCHANGED <<cache, call, ret, now, disk, markets>>

\* fetch_sq_dates comes back with fetched, what it returns or raises: the
\* rest of the block of the SQ dates, then the check of the holiday kind
FetchSqDates(fetched) ==
    /\ updating.pc = "fetch_sq_dates"
    /\ cache' = update_kind(cache, updating, SQ_DATES, fetched).store
    /\ updating' = after_sq_dates(updating, update_kind(cache, updating, SQ_DATES, fetched))
    /\ UNCHANGED <<call, ret, now, disk, markets>>

\* fetch_holiday_trading comes back with fetched: the rest of the block of
\* the holiday kind, then the status is read and returned
FetchHolidayTrading(fetched) ==
    /\ updating.pc = "fetch_holiday_trading"
    /\ cache' = update_kind(cache, updating, HOLIDAY_TRADING, fetched).store
    /\ updating' = after_holiday_trading(updating,
                                         update_kind(cache, updating, HOLIDAY_TRADING, fetched))
    /\ UNCHANGED <<call, ret, now, disk, markets>>

\* the caller of update_cache takes the status or the exception
UpdateCacheReturn ==
    /\ updating.pc = "done"
    /\ updating' = NoUpdate
    /\ UNCHANGED <<cache, call, ret, now, disk, markets>>

\* clear_cache(data_type)
ClearCache(data_type) ==
    /\ call = Idle
    /\ call' = [op |-> "clear_cache", a |-> 0, b |-> 0, c |-> data_type, arg |-> <<>>]
    /\ cache' = clear_cache(cache, data_type)
    /\ ret' = Ok(None)
    /\ UNCHANGED <<now, disk, markets, updating>>

\* get_cache_status()
GetCacheStatus ==
    /\ call = Idle
    /\ call' = [op |-> "get_cache_status", a |-> 0, b |-> 0, c |-> "", arg |-> <<>>]
    /\ ret' = get_cache_status(cache)
    /\ UNCHANGED <<cache, now, disk, markets, updating>>

\* the optional datetimes a caller gives CacheInfo: None, an aware datetime
\* or a naive one
OptionalDatetimes(dt) == {<<>>, <<dt>>, <<replace_tzinfo(dt, NoTzinfo)>>}

OptionalCounts == {<<>>, <<0>>, <<MaxFetched>>}

\* CacheInfo(data_type=.., cache_path=.., is_valid=.., fetched_at=.., ..)
ConstructCacheInfo(kind, valid, fetched_at, expires_at, record_count) ==
    /\ call = Idle
    /\ call' = [op |-> "CacheInfo", a |-> 0, b |-> 0, c |-> kind,
                arg |-> <<[data_type |-> kind, cache_path |-> kind, is_valid |-> valid,
                           fetched_at |-> fetched_at, expires_at |-> expires_at,
                           record_count |-> record_count]>>]
    /\ ret' = CacheInfo([data_type |-> kind, cache_path |-> kind, is_valid |-> valid,
                         fetched_at |-> fetched_at, expires_at |-> expires_at,
                         record_count |-> record_count])
    /\ UNCHANGED <<cache, now, disk, markets, updating>>

\* the cache API and the cache command next to a caller who stores tables
NextCache ==
    \/ \E kind \in DataType : \E rows \in StoredTables(kind) : write(kind, rows)
    \/ \E force \in BOOLEAN : UpdateCache(force, <<>>)
    \/ \E fetched \in Fetched(updating) : FetchSqDates(fetched)
    \/ \E fetched \in Fetched(updating) : FetchHolidayTrading(fetched)
    \/ UpdateCacheReturn
    \/ \E data_type \in DataType \cup {NoDataType} : ClearCache(data_type)
    \/ GetCacheStatus
    \/ CacheUpdate
    \/ Clear
    \/ \E t \in StoreClock : Tick(t)
    \/ Return

SpecCache == Init /\ [][NextCache]_vars

\* C21: clear_cache(kind) removes the entry of that kind and leaves the other
\* kind's records and metadata as they were; clear_cache() removes every
\* entry; neither raises, also with nothing stored; a cleared kind reads as
\* absent and is not valid.  JPXDataCache.clear(), behind the clear command,
\* removes every file, after which reads are refused and the cache is not
\* available
C21_ClearFrame ==
    [][/\ (call = Idle /\ call'.op = "clear_cache")
          => /\ ret' = Ok(None)
             /\ \A kind \in DataType :
                   IF call'.c \in {NoDataType, kind}
                   THEN /\ ~read(kind)'.present
                        /\ ~is_valid(cache, kind)'
                        /\ get_info(cache, kind)'.val.fetched_at = <<>>
                   ELSE cache'[kind] = cache[kind]
       /\ (call = Idle /\ call'.op = "clear")
          => /\ ret' = Ok(None)
             /\ \A f \in CacheFiles : ~disk'[f].exists
             /\ JPXDataCache_read_sq_dates'.tag = "err"
             /\ JPXDataCache_read_holidays'.tag = "err"
             /\ is_cache_available' = Ok(FALSE)]_vars

\* the SQ dates were cleared alone and the holiday records are still stored
\* with their metadata
C21_Witness ==
    /\ call.op = "clear_cache"
    /\ call.c = SQ_DATES
    /\ ~cache[SQ_DATES].present
    /\ cache[HOLIDAY_TRADING].present
    /\ Len(cache[HOLIDAY_TRADING].rows) = MaxFetched
    /\ cache[HOLIDAY_TRADING].meta # <<>>

\* snapshots built by a caller and snapshots read from the store
NextInfo ==
    \/ \E kind \in DataType : \E rows \in StoredTables(kind) : write(kind, rows)
    \/ GetCacheStatus
    \/ \E kind \in DataType, valid \in BOOLEAN,
          fetched_at \in OptionalDatetimes(datetime_now(UTC)),
          expires_at \in OptionalDatetimes(plus_hours(datetime_now(UTC), CACHE_VALIDITY_HOURS)),
          record_count \in OptionalCounts :
          ConstructCacheInfo(kind, valid, fetched_at, expires_at, record_count)
    \/ \E t \in StoreClock : Tick(t)
    \/ Return

SpecInfo == Init /\ [][NextInfo]_vars

\* the number of optional fields of a snapshot that are set
Populated(info) == Cardinality({f \in CacheInfoOptional : info[f] # <<>>})

\* a call of update_cache has returned its status
Updated == updating.pc = "done" /\ updating.ret.tag = "ok"

\* the snapshots the finished calls have produced
Snapshots ==
    (IF ret.tag # "ok" THEN {}
     ELSE IF call.op = "CacheInfo" THEN {ret.val}
     ELSE IF call.op = "get_cache_status" THEN {ret.val[kind] : kind \in DataType}
     ELSE {})
    \cup (IF Updated THEN {updating.ret.val[kind] : kind \in DataType} ELSE {})

\* C22: every snapshot that can be constructed has its three optional fields
\* all set or all None, and all set when is_valid
C22_NeverPartial ==
    \A info \in Snapshots :
        /\ Populated(info) \in {0, 3}
        /\ info.is_valid => Populated(info) = 3

\* update_cache while the clock runs, next to a caller who stores tables and
\* reads the status
NextUpdate ==
    \/ \E kind \in DataType : \E rows \in StoredTables(kind) : write(kind, rows)
    \/ \E force \in BOOLEAN, years \in UpdateYears : UpdateCache(force, years)
    \/ \E fetched \in Fetched(updating) : FetchSqDates(fetched)
    \/ \E fetched \in Fetched(updating) : FetchHolidayTrading(fetched)
    \/ UpdateCacheReturn
    \/ GetCacheStatus
    \/ \E t \in StoreClock : Tick(t)
    \/ Return

SpecUpdate == Init /\ [][NextUpdate]_vars

\* where a call of update_cache stands while the kind is downloaded
FetchPc(kind) == IF kind = SQ_DATES THEN "fetch_sq_dates" ELSE "fetch_holiday_trading"

\* the step in which the fetch of the kind comes back with fetched
FetchReturns(kind, fetched) ==
    IF kind = SQ_DATES THEN FetchSqDates(fetched) ELSE FetchHolidayTrading(fetched)

\* what a fetch of the kind can return or raise for the call
FetchResults(kind, frame) == IF frame.pc = FetchPc(kind) THEN Fetched(frame) ELSE {}

\* what a fetch of the kind can raise for the call
FetchErrors(kind, frame) == {fetched \in FetchResults(kind, frame) : fetched.tag = "err"}

\* a call of update_cache takes a step
UpdateStep == updating'.pc # updating.pc

\* the call ends with an exception in this step
UpdateRaises == UpdateStep /\ updating'.pc = "done" /\ updating'.ret.tag = "err"

\* C23: when the fetch of a kind fails in update_cache, the caller gets the
\* fetcher's exception itself and the call has changed nothing of the rows
\* and metadata stored for that kind: the step in which a fetch raises ends
\* the call with that exception and leaves the store as it was, no step
\* changes a kind but the one in which the kind's own fetch comes back and
\* the call goes on, and a call raises nothing but what the fetcher raised
\* for the kind it was downloading
C23_FailedUpdateKeepsKind ==
    [][/\ \A kind \in DataType : \A fetched \in FetchErrors(kind, updating) :
             FetchReturns(kind, fetched)
             => /\ updating'.pc = "done"
                /\ updating'.ret = fetched
                /\ cache' = cache
       /\ UpdateStep
          => \A kind \in DataType :
                \/ cache'[kind] = cache[kind]
                \/ updating.pc = FetchPc(kind) /\ ~UpdateRaises
       /\ UpdateRaises
          => \E kind \in DataType : updating'.ret \in FetchErrors(kind, updating)]_vars

\* the SQ dates are valid and the holiday records stored earlier have
\* expired: the call, not forced, asked for the holiday file alone, the
\* download failed, the call ended with the fetcher's exception and the
\* holiday records and their metadata are still there
C23_Witness ==
    /\ updating.pc = "done"
    /\ ~updating.force
    /\ updating.ret = DataFetchError(HOLIDAY_TRADING_URL)
    /\ is_valid(cache, SQ_DATES)
    /\ cache[HOLIDAY_TRADING].present
    /\ Len(cache[HOLIDAY_TRADING].rows) = MaxFetched
    /\ ~is_valid(cache, HOLIDAY_TRADING)
    /\ earlier(cache[HOLIDAY_TRADING].meta[1].fetched_at, updating.now)

\* the call of update_cache returns its status in this step
UpdateReturns == ~Updated /\ Updated'

\* the call reaches the check of the kind in this step: the SQ dates when it
\* is called, the holiday kind when it is called with nothing to fetch for
\* the SQ dates or when the SQ dates have been written
Checks(kind) ==
    /\ UpdateStep
    /\ updating'.pc # "none"
    /\ ~UpdateRaises
    /\ IF kind = SQ_DATES THEN updating.pc = "none"
       ELSE updating.pc \in {"none", "fetch_sq_dates"}
                /\ updating'.pc # "fetch_sq_dates"

\* what fetch_sq_dates(years) comes back with when the server delivers the
\* files of all years with rows of the options, for each list of years
DeliveredSQ ==
    [years \in FetchYears |->
        {fetch_sq_dates(years, responses) :
            responses \in {r \in SQResponses(years) : DeliversSQ(r)}}]

\* what fetch_holiday_trading() comes back with when the server delivers the
\* holiday file
DeliveredHolidays ==
    {fetch_holiday_trading(response) : response \in {r \in HolidayResponses : Delivers(r)}}

\* what the fetch of the kind comes back with for the call when the server
\* delivers the files asked for
Delivered(kind, frame) ==
    IF frame.pc # FetchPc(kind) THEN {}
    ELSE IF kind = SQ_DATES THEN DeliveredSQ[frame.years]
    ELSE DeliveredHolidays

\* C24: update_cache without force fetches and rewrites a kind only when the
\* kind is not valid and leaves a valid kind's rows and metadata untouched;
\* under force it fetches and rewrites both kinds; a kind that is fetched is
\* rewritten with the records of the files the server delivers; after any
\* successful call both kinds are valid and each record_count is the number
\* of rows stored
C24_UpdateRewritesStale ==
    [][/\ \A kind \in DataType :
            /\ Checks(kind)
               => (updating'.pc = FetchPc(kind)
                      <=> (updating'.force \/ ~is_valid(cache', kind)))
            /\ \A fetched \in Delivered(kind, updating) :
                  FetchReturns(kind, fetched)
                  => /\ fetched.tag = "ok"
                     /\ cache'[kind].present
                     /\ cache'[kind].rows = records_to_table(kind, fetched.val)
                     /\ cache'[kind].meta[1].fetched_at = updating.now
            /\ (UpdateStep /\ updating.pc # FetchPc(kind)) => cache'[kind] = cache[kind]
       /\ UpdateReturns
          => \A kind \in DataType :
                /\ is_valid(cache, kind)'
                /\ updating'.ret.val[kind].is_valid
                /\ cache'[kind].meta[1].record_count = Len(cache'[kind].rows)
                /\ updating'.ret.val[kind].record_count = <<Len(cache'[kind].rows)>>]_vars

(* ------------------------------------------------------------------ *)
(* Market registry: inputs, calls and claims                            *)
(* ------------------------------------------------------------------ *)

\* market ids, as sequences of letter codes: "b", "a", "ab", "ba"
MarketIds == {<<2>>, <<1>>, <<1, 2>>, <<2, 1>>}

\* the names of the classes registered
MarketClasses == {"FirstMarket", "SecondMarket", "NewMarket"}

\* the record of a call of the registry
RegistryCall(op, market_id, market_class) ==
    [op |-> op, a |-> 0, b |-> 0, c |-> market_class, arg |-> market_id]

\* @MarketRegistry.register(market_id) applied to market_class
Register(market_id, market_class) ==
    /\ call = Idle
    /\ call' = RegistryCall("register", market_id, market_class)
    /\ markets' = register(markets, market_id, market_class).markets
    /\ ret' = register(markets, market_id, market_class).ret
    /\ UNCHANGED <<cache, now, disk, updating>>

\* MarketRegistry.get_available_markets()
GetAvailableMarkets ==
    /\ call = Idle
    /\ call' = RegistryCall("get_available_markets", <<>>, "")
    /\ ret' = Ok(get_available_markets(markets))
    /\ UNCHANGED <<cache, now, disk, markets, updating>>

\* MarketRegistry.get(market_id)
RegistryGet(market_id) ==
    /\ call = Idle
    /\ call' = RegistryCall("get", market_id, "")
    /\ ret' = registry_get(markets, market_id)
    /\ UNCHANGED <<cache, now, disk, markets, updating>>

\* MarketRegistry.clear()
RegistryClear ==
    /\ call = Idle
    /\ call' = RegistryCall("registry_clear", <<>>, "")
    /\ markets' = registry_clear(markets)
    /\ ret' = Ok(None)
    /\ UNCHANGED <<cache, now, disk, updating>>

NextRegistry ==
    \/ \E market_id \in MarketIds, market_class \in MarketClasses :
          Register(market_id, market_class)
    \/ GetAvailableMarkets
    \/ \E market_id \in MarketIds : RegistryGet(market_id)
    \/ RegistryClear
    \/ Return

SpecRegistry == Init /\ [][NextRegistry]_vars

\* the sequence lists the ids in ascending order, each once
IsSortedListOf(ids, list) ==
    /\ {list[i] : i \in 1..Len(list)} = ids
    /\ Len(list) = Cardinality(ids)
    /\ \A i \in 1..(Len(list) - 1) : text_le(list[i], list[i + 1])

\* C25: registering under an id that is registered raises
\* MarketAlreadyRegisteredError with the id and the class registered before,
\* and that class stays registered; after clear any id can be registered;
\* get_available_markets lists the registered ids in sorted order
C25_DuplicateRegistration ==
    [][/\ (call = Idle /\ call'.op = "register")
          => IF call'.arg \in DOMAIN markets
             THEN /\ ret' = Raise("MarketAlreadyRegisteredError",
                                   <<call'.arg, markets[call'.arg]>>)
                  /\ markets' = markets
             ELSE /\ ret' = Ok(call'.c)
                  /\ DOMAIN markets' = DOMAIN markets \cup {call'.arg}
                  /\ markets'[call'.arg] = call'.c
       /\ (call = Idle /\ call'.op = "registry_clear") => DOMAIN markets' = {}
       /\ (call = Idle /\ call'.op = "get_available_markets")
          => IsSortedListOf(DOMAIN markets, ret'.val)]_vars

(* ------------------------------------------------------------------ *)
(* Calendar operations composed: inputs, calls and claims               *)
(* ------------------------------------------------------------------ *)

\* previous_business_day(next_business_day(d))
previous_of_next(d) ==
    LET next == next_business_day(d)
    IN  IF next.tag = "err" THEN next ELSE previous_business_day(next.val)

\* next_business_day(previous_business_day(d))
next_of_previous(d) ==
    LET previous == previous_business_day(d)
    IN  IF previous.tag = "err" THEN previous ELSE next_business_day(previous.val)

\* a caller evaluates previous_business_day(next_business_day(d))
PreviousOfNext(d) ==
    /\ call = Idle
    /\ call' = [op |-> "previous_of_next", a |-> d, b |-> 0, c |-> "", arg |-> <<>>]
    /\ ret' = previous_of_next(d)
    /\ UNCHANGED <<cache, now, disk, markets, updating>>

\* a caller evaluates next_business_day(previous_business_day(d))
NextOfPrevious(d) ==
    /\ call = Idle
    /\ call' = [op |-> "next_of_previous", a |-> d, b |-> 0, c |-> "", arg |-> <<>>]
    /\ ret' = next_of_previous(d)
    /\ UNCHANGED <<cache, now, disk, markets, updating>>

\* a caller counts and lists the business days of a..c, a..b and b+1..c
SplitRange(a, b, c) ==
    /\ call = Idle
    /\ a <= b /\ b < c
    /\ call' = [op |-> "split_range", a |-> a, b |-> b, c |-> "", arg |-> <<c>>]
    /\ ret' = Ok([count |-> <<count_business_days(a, c), count_business_days(a, b),
                             count_business_days(b + 1, c)>>,
                  days |-> <<get_business_days(a, c), get_business_days(a, b),
                            get_business_days(b + 1, c)>>])
    /\ UNCHANGED <<cache, now, disk, markets, updating>>

NextAlgebra ==
    \/ \E rows \in HolidayTables : write(HOLIDAY_TRADING, rows)
    \/ clear(HOLIDAY_TRADING)
    \/ \E d \in ProbeDates : PreviousOfNext(d)
    \/ \E d \in ProbeDates : NextOfPrevious(d)
    \/ \E a \in ProbeDates, b \in ProbeDates, c \in ProbeDates : SplitRange(a, b, c)
    \/ Return

SpecAlgebra == Init /\ [][NextAlgebra]_vars

\* C26: for a business day d, previous_business_day(next_business_day(d))
\* and next_business_day(previous_business_day(d)) are d; for a day that is
\* no business day neither is d
C26_NextPreviousInverse ==
    call.op \in {"previous_of_next", "next_of_previous"}
    => IF is_business_day(call.a) = Ok(TRUE)
       THEN ret = Ok(call.a)
       ELSE ret # Ok(call.a)

\* Thursday 12 February 2026, the business day after the holiday of the 11th
\* when the 10th is closed as well: the composition skipped two closed days
\* and came back
C26_Witness ==
    /\ call.op = "next_of_previous"
    /\ call.a = Date(2026, 2, 12)
    /\ is_business_day(Date(2026, 2, 11)) = Ok(FALSE)
    /\ is_business_day(Date(2026, 2, 10)) = Ok(FALSE)
    /\ ret = Ok(Date(2026, 2, 12))

\* C27: over a..c split at b, the count of business days is the sum of the
\* counts of a..b and b+1..c and the list is the concatenation of the two
\* lists; the whole range is answered exactly when both parts are
C27_CountAdditive ==
    call.op = "split_range"
    => /\ ret.val.count[1].tag = "ok"
          <=> (ret.val.count[2].tag = "ok" /\ ret.val.count[3].tag = "ok")
       /\ ret.val.days[1].tag = "ok"
          <=> (ret.val.days[2].tag = "ok" /\ ret.val.days[3].tag = "ok")
       /\ ret.val.count[1].tag = "ok"
          => ret.val.count[1].val = ret.val.count[2].val + ret.val.count[3].val
       /\ ret.val.days[1].tag = "ok"
          => ret.val.days[1].val = ret.val.days[2].val \o ret.val.days[3].val

\* Friday 6 to Friday 13 February 2026 split after Monday 9, with two
\* holidays in the second part: 2 + 2 business days
C27_Witness ==
    /\ call.op = "split_range"
    /\ call.a = Date(2026, 2, 6)
    /\ call.b = Date(2026, 2, 9)
    /\ call.arg[1] = Date(2026, 2, 13)
    /\ ret.val.count[2] = Ok(2)
    /\ ret.val.count[3] = Ok(2)
    /\ ret.val.count[1] = Ok(4)
    /\ Len(ret.val.days[1].val) = 4

(* ------------------------------------------------------------------ *)
(* Business-day operations without holiday data                         *)
(* ------------------------------------------------------------------ *)

\* no date of start..end is a weekday
OnlyWeekend(start, end) == \A d \in start..end : is_weekend(d)

\* C29: with the holiday data absent, is_business_day(d) returns false for a
\* Saturday or Sunday and fails with CacheNotAvailableError for every other
\* date; get_business_days over a range of weekend dates only returns the
\* empty list; next_business_day, previous_business_day and get_business_days
\* over a range reaching a weekday fail with CacheNotAvailableError
C29_AbsentHolidayData ==
    ~HolidayData.present =>
        /\ call.op = "is_business_day" =>
              ret = IF is_weekend(call.a) THEN Ok(FALSE)
                    ELSE Raise("CacheNotAvailableError", <<>>)
        /\ call.op = "get_business_days" =>
              ret = IF OnlyWeekend(call.a, call.b) THEN Ok(<<>>)
                    ELSE Raise("CacheNotAvailableError", <<>>)
        /\ call.op \in {"next_business_day", "previous_business_day"} =>
              ret = Raise("CacheNotAvailableError", <<>>)

(* ------------------------------------------------------------------ *)
(* Contract month texts: inputs, calls and claims                       *)
(* ------------------------------------------------------------------ *)

\* years of one to five digits, on both sides of the two-digit and the
\* four-digit forms
ContractYears == {0, 5, 26, 99, 100, 999, 1000, 2026, 9999, 10000}

ContractMonths == 1..12

YearTexts == {<<5>>, <<0, 0>>, <<2, 6>>, <<1, 2, 3>>, <<2, 0, 2, 6>>, <<1, 0, 0, 0, 0>>}

MonthTexts == {<<>>, <<0>>, <<3>>, <<0, 3>>, <<1, 2>>, <<1, 3>>, <<0, 0>>, <<0, 1, 2>>}

\* texts in and around the three accepted forms
ParseTexts ==
    UNION {{y \o m,
            y \o <<HYPHEN>> \o m,
            y \o <<NEN>> \o m \o <<GATSU, GEN>>,
            <<SPACE>> \o y \o <<NEN>> \o m \o <<GATSU, GEN, SPACE>>,
            y \o <<NEN>> \o m \o <<GATSU>>,
            y \o <<NEN, SPACE>> \o m \o <<GATSU, GEN>>,
            m \o <<GATSU, GEN>>} : y \in YearTexts, m \in MonthTexts}

\* ContractMonth(year=year, month=month)
Construct(year, month) ==
    /\ call = Idle
    /\ call' = [op |-> "ContractMonth", a |-> year, b |-> month, c |-> "", arg |-> <<>>]
    /\ ret' = ContractMonth(year, month)
    /\ UNCHANGED <<cache, now, disk, markets, updating>>

\* ContractMonth.parse(text)
Parse(text) ==
    /\ call = Idle
    /\ call' = [op |-> "parse", a |-> 0, b |-> 0, c |-> "", arg |-> text]
    /\ ret' = parse(text)
    /\ UNCHANGED <<cache, now, disk, markets, updating>>

\* ContractMonth.parse(ContractMonth(year=year, month=month).to_yyyymm())
ParseToYyyymm(year, month) ==
    /\ call = Idle
    /\ IsOk(ContractMonth(year, month))
    /\ call' = [op |-> "parse_to_yyyymm", a |-> year, b |-> month, c |-> "",
                arg |-> to_yyyymm(year, month)]
    /\ ret' = parse(to_yyyymm(year, month))
    /\ UNCHANGED <<cache, now, disk, markets, updating>>

\* ContractMonth.parse(ContractMonth(year=year, month=month).to_japanese())
ParseToJapanese(year, month) ==
    /\ call = Idle
    /\ IsOk(ContractMonth(year, month))
    /\ call' = [op |-> "parse_to_japanese", a |-> year, b |-> month, c |-> "",
                arg |-> to_japanese(year, month)]
    /\ ret' = parse(to_japanese(year, month))
    /\ UNCHANGED <<cache, now, disk, markets, updating>>

NextContractMonth ==
    \/ \E year \in ContractYears \cup {-1}, month \in 0..13 : Construct(year, month)
    \/ \E text \in ParseTexts : Parse(text)
    \/ \E year \in ContractYears, month \in 0..13 : ParseToYyyymm(year, month)
    \/ \E year \in ContractYears, month \in 0..13 : ParseToJapanese(year, month)
    \/ Return

SpecContractMonth == Init /\ [][NextContractMonth]_vars

\* C30: for every valid ContractMonth cm, parse(cm.to_yyyymm()) = cm and
\* parse(cm.to_japanese()) = cm; to_yyyymm is injective; every text that
\* parse rejects fails with ContractMonthParseError
C30_TextRoundTrip ==
    /\ call.op \in {"parse_to_yyyymm", "parse_to_japanese"} =>
          ret = ContractMonth(call.a, call.b)
    /\ call.op = "parse_to_yyyymm" =>
          \A year \in ContractYears, month \in ContractMonths :
              to_yyyymm(year, month) = call.arg => (year = call.a /\ month = call.b)
    /\ call.op = "parse" => (IsOk(ret) \/ ret = ContractMonthParseError(strip(call.arg)))

=============================================================================
